---- MODULE Spec2Model ----
(***************************************************************************)
(* Distributed code mesh of aiplatform/mesh_ide.py: the topology layer     *)
(* (MeshNetworkLayer), the replication manager (CodeReplicationManager)    *)
(* and the coordinator's replication status view.                          *)
(*                                                                         *)
(* Python dicts are insertion ordered: a dict whose iteration order the    *)
(* code relies on (nodes, replicas) is a sequence of records keyed by a    *)
(* field; a dict only looked up by key is a function.                      *)
(***************************************************************************)
EXTENDS Integers, Sequences, FiniteSets, TLC

\* ------------------------------------------------------------- bounds
\* Highest replica version the model lets a sync or a resolve produce.
MaxVersion == 3
\* Highest reading of the clock behind datetime.now().
MaxTime == 1
\* Longest SyncEvent log the model lets sync_file build.
MaxEvents == 2
\* The longest target list the coordinator hands to replicate_file
\* (add_file keeps the first two candidate nodes).
ReplicaTargets == 2
\* The backups a hybrid plan keeps (backup_nodes[:2]).
PlanBackups == 2

\* Most nodes the model lets add_node register.
MaxNodes == 4
\* Most GuardianAgents the model lets add_file calls make in all.
MaxFileAgents == 4
\* Most GuardianAgents the model lets create_guardian make.
MaxAgents == 3

\* ------------------------------------------------------------- inputs
FileIds == {"file_001"}
Paths == {"test.py"}
\* The content a file is registered with, and the contents later synced.
InitialContents == {"x=1"}
Contents == {"x=1", "x=2"}
\* The node ids callers pass; "ghost_1" is never registered.  Replication
\* treats every registered node alike, so a file is first registered on
\* local_1, replicated towards edge_1 and cloud_1 (in any order, with
\* repeats), and synced or resolved from local_1 (always a holder) or edge_1
\* (a holder or not).
PrimaryNodes == {"local_1", "ghost_1"}
TargetNodes == {"edge_1", "cloud_1", "ghost_1"}
SourceNodes == {"local_1", "edge_1"}
\* The topology specification: the nodes add_node is called with, the ids
\* connect_nodes and find_best_path are called with, and the link latencies
\* (none negative; 1 + 1 < 3 makes a two-link path beat a direct link).
NetNodeSpecs ==
    { [node_id |-> "local_1", node_type |-> "local", status |-> "online",
       load |-> 0, latency_ms |-> 0],
      [node_id |-> "quantum_1", node_type |-> "quantum", status |-> "online",
       load |-> 0, latency_ms |-> 0] }
NetNodeIds == {"local_1", "edge_1", "cloud_1", "quantum_1", "ghost_1"}
\* connect_nodes stores a link under both orders of its endpoints, so each
\* pair of distinct ids is passed in one order.
LinkPairs ==
    { <<"local_1", "edge_1">>, <<"local_1", "cloud_1">>, <<"local_1", "quantum_1">>,
      <<"edge_1", "cloud_1">>, <<"edge_1", "quantum_1">>, <<"cloud_1", "quantum_1">>,
      <<"cloud_1", "ghost_1">>, <<"ghost_1", "local_1">> }
Latencies == {0, 1, 3}
\* Every graph over the four nodes is built, so paths are asked from one
\* registered node (and from an unknown one) to every id.
PathSources == {"local_1", "ghost_1"}
\* The links connect_nodes is asked for where files are replicated as well: one
\* between registered nodes, given in either order, one from and one to an id
\* that is no node; two latencies to tell a replaced link by.
MeshLinkPairs ==
    { <<"local_1", "edge_1">>, <<"edge_1", "local_1">>,
      <<"cloud_1", "ghost_1">>, <<"ghost_1", "local_1">> }
MeshLatencies == {1, 3}
\* The links made and made again where the link graph alone is built.
RelinkPairs == MeshLinkPairs \cup {<<"edge_1", "cloud_1">>}
\* Two files side by side, each registered on local_1 and planned for one
\* context from one developer node.
TwoFileIds == {"file_001", "file_002"}
TwoFileContexts == {"edge"}
TwoFileDevelopers == {"local_1"}
\* The guardian registry is called with a registered file's id and with an id
\* no file is ever registered under, a hosting node and two of the AgentRoles.
GuardianFileIds == {"file_001", "file_002"}
GuardianNodes == {"local_1", "edge_1"}
Roles == {"guardian", "monitor"}
\* The MeshNodes the router's mesh is built from, in any order: nodes of every
\* class the router selects from, available (online, load below 0.9) or not
\* (offline, degraded, load 0.9), the unavailable edge nodes being the nearest.
\* One id comes in several variants; add_node registers an id once.
RouterNodeSpecs ==
    { [node_id |-> "local_1", node_type |-> "local", status |-> "online",
       load |-> 0, latency_ms |-> 0],
      [node_id |-> "edge_1", node_type |-> "edge", status |-> "online",
       load |-> 0, latency_ms |-> 80],
      [node_id |-> "edge_1", node_type |-> "edge", status |-> "degraded",
       load |-> 0, latency_ms |-> 5],
      [node_id |-> "edge_2", node_type |-> "edge", status |-> "online",
       load |-> 50, latency_ms |-> 30],
      [node_id |-> "edge_2", node_type |-> "edge", status |-> "offline",
       load |-> 0, latency_ms |-> 10],
      [node_id |-> "edge_2", node_type |-> "edge", status |-> "online",
       load |-> 90, latency_ms |-> 10],
      [node_id |-> "cloud_1", node_type |-> "cloud", status |-> "online",
       load |-> 50, latency_ms |-> 100],
      [node_id |-> "cloud_1", node_type |-> "cloud", status |-> "degraded",
       load |-> 0, latency_ms |-> 100],
      [node_id |-> "quantum_1", node_type |-> "quantum", status |-> "offline",
       load |-> 0, latency_ms |-> 0],
      [node_id |-> "quantum_2", node_type |-> "quantum", status |-> "online",
       load |-> 0, latency_ms |-> 0] }
\* The MeshNodes the coordinator's mesh is built from, in any order; edge_1
\* comes online or offline and cloud_1 is overloaded.
CoordNodeSpecs ==
    { [node_id |-> "local_1", node_type |-> "local", status |-> "online",
       load |-> 0, latency_ms |-> 0],
      [node_id |-> "edge_1", node_type |-> "edge", status |-> "online",
       load |-> 0, latency_ms |-> 0],
      [node_id |-> "edge_1", node_type |-> "edge", status |-> "offline",
       load |-> 0, latency_ms |-> 0],
      [node_id |-> "cloud_1", node_type |-> "cloud", status |-> "online",
       load |-> 90, latency_ms |-> 0],
      [node_id |-> "quantum_1", node_type |-> "quantum", status |-> "online",
       load |-> 0, latency_ms |-> 0] }
\* The path add_file is called with (again and again, with either content),
\* and the primary nodes: two that may be registered and one that never is.
CoordPaths == {"test.py"}
CoordPrimaries == {"local_1", "edge_1", "ghost_1"}
\* The mesh of TestMeshFileManager.setUp, built in any order, the file ids
\* save_file is called with (the id of "test.py" and one of no file) and the
\* node a file is added on.
FileNodeSpecs ==
    { [node_id |-> "local_1", node_type |-> "local", status |-> "online",
       load |-> 0, latency_ms |-> 0],
      [node_id |-> "edge_1", node_type |-> "edge", status |-> "online",
       load |-> 0, latency_ms |-> 0] }
SavedFileIds == {"file_b284a287", "file_d41d8cd9"}
\* The id add_file gives "test.py", for the replication manager's calls on it.
AddedFileIds == {"file_b284a287"}
FilePrimaries == {"local_1"}
\* The callers' threads, each making one sync_file or resolve_conflict call,
\* and the target lists the file they call on was replicated with before.
Threads == {"t1", "t2"}
ConcTargetLists == {<<"edge_1">>}
\* The target lists a thread's replicate_file call is made with.
ConcNewTargetLists == {<<"cloud_1">>, <<"edge_1", "cloud_1">>}
\* ExecutionContext
Contexts == {"local", "edge", "cloud", "quantum", "hybrid"}
\* The developer_node a plan is asked for.
DeveloperNodes == {"local_1", "edge_1"}
\* bandwidth_mbps: int = 100
DefaultBandwidth == 100
\* The bandwidths connect_nodes is given where links are replaced.
MeshBandwidths == {DefaultBandwidth, 50}

None == "None"
\* None where a CodeReplica is expected.
NoReplica == <<>>
\* None where an ExecutionPlan is expected.
NoPlan == <<>>
\* float('inf')
Infinity == 1000000

VARIABLES
    nodes,              \* MeshNetworkLayer.nodes: node records in insertion order
    node_graph,         \* MeshNetworkLayer.node_graph: node id -> set of node ids
    network_latencies,  \* MeshNetworkLayer.network_latencies: <<a, b>> -> ms
    bandwidth,          \* MeshNetworkLayer.bandwidth: <<a, b>> -> MB/s
    files,              \* CodeReplicationManager.files: file id -> FileMetadata
    sync_events,        \* CodeReplicationManager.sync_events
    clock,              \* the last reading datetime.now() returned
    agents,             \* GuardianAgentSystem.agents: agent id -> GuardianAgent
    file_guardians,     \* GuardianAgentSystem.file_guardians: file id -> agent id
    threads,            \* the calls in progress on concurrent callers' threads
    local_cache,        \* MeshFileManager.local_cache: file id -> content
    last                \* the most recent call: operation, arguments, return value

vars == <<nodes, node_graph, network_latencies, bandwidth, files, sync_events,
          clock, agents, file_guardians, threads, local_cache, last>>

netVars == <<nodes, node_graph, network_latencies, bandwidth>>
repVars == <<files, sync_events, clock>>
guardVars == <<agents, file_guardians>>

\* ------------------------------------------------------------ helpers
Range(s) == {s[i] : i \in 1..Len(s)}

\* The keys of the nodes dict.
NodeKeys(ns) == {ns[i].node_id : i \in 1..Len(ns)}

\* self.network.nodes[node_id]
NodeAt(ns, id) == ns[CHOOSE i \in 1..Len(ns) : ns[i].node_id = id]

\* The keys of a replicas dict.
ReplicaKeys(meta) == {meta.replicas[i].node_id : i \in 1..Len(meta.replicas)}

\* metadata.replicas[node_id]
ReplicaAt(meta, id) ==
    meta.replicas[CHOOSE i \in 1..Len(meta.replicas) : meta.replicas[i].node_id = id]

\* hashlib.sha256(content.encode()).hexdigest()[:16]
Hash(content) ==
    CASE content = "x=1" -> "1f206b11c23e28cc"
      [] content = "x=2" -> "93188956c3adf4e6"
      [] OTHER -> "e3b0c44298fc1c14"

\* The readings k successive datetime.now() calls may return: the clock never
\* runs backwards and two calls may read the same microsecond.  Only the order
\* and the ties of readings are ever compared, so a step of one stands for any
\* advance.
Stamps(k) ==
    { s \in [1..k -> clock..MaxTime] :
        /\ k > 0 => s[1] \in {clock, clock + 1}
        /\ \A i \in 2..k : s[i] \in {s[i-1], s[i-1] + 1} }

ClockAfter(s) == IF Len(s) = 0 THEN clock ELSE s[Len(s)]

\* The call record kept for the claims: what was called, on which file, with
\* which node and content, what it returned (ret) or raised, and, for a
\* resolve_conflict, whether it repeats a successful call made just before it.
Call(op, f, n, c, r) ==
    [op |-> op, file_id |-> f, node |-> n, content |-> c, ret |-> r, raised |-> None,
     again |-> FALSE]

\* The call record of a topology call: the node ids it was given and what it
\* returned.
NetCall(op, a, b, r) == [op |-> op, node |-> a, peer |-> b, ret |-> r, again |-> FALSE]

\* ------------------------------------------------------- FileMetadata
\* get_primary_replica taking the replica updated longest ago.
get_oldest_replica(meta) ==
    IF Len(meta.replicas) = 0 THEN NoReplica
    ELSE LET r == meta.replicas
             i == CHOOSE i \in 1..Len(r) :
                    /\ \A j \in 1..Len(r) : r[j].timestamp >= r[i].timestamp
                    /\ \A j \in 1..(i-1) : r[j].timestamp > r[i].timestamp
         IN  r[i]

\* FileMetadata.get_primary_replica: max() returns the first replica, in
\* insertion order, among those with the latest timestamp.
get_primary_replica(meta) ==
    IF Len(meta.replicas) = 0 THEN NoReplica
    ELSE LET r == meta.replicas
             i == CHOOSE i \in 1..Len(r) :
                    /\ \A j \in 1..Len(r) : r[j].timestamp <= r[i].timestamp
                    /\ \A j \in 1..(i-1) : r[j].timestamp < r[i].timestamp
         IN  r[i]

\* FileMetadata.replicas_consistent
replicas_consistent(meta) ==
    IF Len(meta.replicas) <= 1 THEN TRUE
    ELSE Cardinality({meta.replicas[i].hash : i \in 1..Len(meta.replicas)}) = 1

\* MeshNode(node_id, node_type, location) with the defaults of its other
\* fields: status online, load 0.0, latency_ms 0.  load is kept in hundredths
\* (0.9 is 90); location, hosted_files, agents and capabilities are never read
\* by the operations modelled and are left out.
MeshNode(node_id, node_type) ==
    [node_id |-> node_id, node_type |-> node_type, status |-> "online",
     load |-> 0, latency_ms |-> 0]

\* A thread that has made no call yet.  A thread in a call keeps the call's
\* arguments, its position pc, the index i of the replica its loop is at, the
\* values it has read and not yet stored (hash, version_read, consistent), the
\* size the replicas dict had when its iteration began, the target_nodes
\* argument of replicate_file, and what the call returned or raised.
IdleThread ==
    [pc |-> "idle", op |-> None, file_id |-> None, content |-> None, node |-> None,
     i |-> 0, hash |-> None, version_read |-> 0, consistent |-> FALSE, size |-> 0,
     targets |-> <<>>, returned |-> None]

\* MeshNode.is_available: status == "online" and load < 0.9
is_available(n) == n.status = "online" /\ n.load < 90

\* ------------------------------------------------------------ initial
\* The constructors alone: every registry empty.
InitEmpty ==
    /\ nodes = <<>>
    /\ node_graph = <<>>
    /\ network_latencies = <<>>
    /\ bandwidth = <<>>
    /\ files = <<>>
    /\ sync_events = <<>>
    /\ clock = 0
    /\ agents = <<>>
    /\ file_guardians = <<>>
    /\ threads = [t \in Threads |-> IdleThread]
    /\ local_cache = <<>>
    /\ last = Call("__init__", None, None, None, None)

\* The mesh of TestCodeReplication.setUp: the constructors (every registry
\* empty) followed by add_node of local_1, edge_1 and cloud_1, no link.
InitMesh ==
    /\ nodes = << MeshNode("local_1", "local"), MeshNode("edge_1", "edge"),
                  MeshNode("cloud_1", "cloud") >>
    /\ node_graph = [n \in {"local_1", "edge_1", "cloud_1"} |-> {}]
    /\ network_latencies = <<>>
    /\ bandwidth = <<>>
    /\ files = <<>>
    /\ sync_events = <<>>
    /\ clock = 0
    /\ agents = <<>>
    /\ file_guardians = <<>>
    /\ threads = [t \in Threads |-> IdleThread]
    /\ local_cache = <<>>
    /\ last = Call("setUp", None, None, None, None)

\* --------------------------------------------------- MeshNetworkLayer
\* add_node letting a node in under an id that is already registered.
add_node_rejects_never(node) == FALSE

\* if node.node_id in self.nodes: return False
add_node_rejects(node) == node.node_id \in NodeKeys(nodes)

\* MeshNetworkLayer.add_node
AddNode(node) ==
    /\ IF add_node_rejects(node)
       THEN /\ UNCHANGED netVars
            /\ last' = NetCall("add_node", node.node_id, None, FALSE)
       ELSE /\ Len(nodes) < MaxNodes
            /\ nodes' = Append(nodes, node)
            /\ node_graph' = node_graph @@ (node.node_id :> {})
            /\ UNCHANGED <<network_latencies, bandwidth>>
            /\ last' = NetCall("add_node", node.node_id, None, TRUE)
    /\ UNCHANGED repVars
    /\ UNCHANGED <<guardVars, threads, local_cache>>

\* connect_nodes recording the value under (node_a, node_b) alone.
with_link_one_way(d, node_a, node_b, value) == (<<node_a, node_b>> :> value) @@ d

\* d[(node_a, node_b)] = value; d[(node_b, node_a)] = value
with_link(d, node_a, node_b, value) ==
    (<<node_a, node_b>> :> value) @@ (<<node_b, node_a>> :> value) @@ d

\* MeshNetworkLayer.connect_nodes
ConnectNodes(node_a, node_b, latency_ms, bandwidth_mbps) ==
    /\ IF node_a \notin NodeKeys(nodes) \/ node_b \notin NodeKeys(nodes)
       THEN /\ UNCHANGED netVars
            /\ last' = NetCall("connect_nodes", node_a, node_b, FALSE)
       ELSE /\ node_graph' = [node_graph EXCEPT ![node_a] = @ \cup {node_b},
                                                ![node_b] = @ \cup {node_a}]
            /\ network_latencies' = with_link(network_latencies, node_a, node_b, latency_ms)
            /\ bandwidth' = with_link(bandwidth, node_a, node_b, bandwidth_mbps)
            /\ UNCHANGED nodes
            /\ last' = [NetCall("connect_nodes", node_a, node_b, TRUE)
                            EXCEPT !.again = <<node_a, node_b>> \in DOMAIN network_latencies]
    /\ UNCHANGED repVars
    /\ UNCHANGED <<guardVars, threads, local_cache>>

\* self.network_latencies.get((current, neighbor), 0)
LatencyOf(current, neighbor) ==
    IF <<current, neighbor>> \in DOMAIN network_latencies
    THEN network_latencies[<<current, neighbor>>]
    ELSE 0

\* The relaxation taking the link's latency alone for the distance.
new_distance_link_only(distances, current, neighbor) == LatencyOf(current, neighbor)

\* new_distance = distances[current] + latency
new_distance(distances, current, neighbor) ==
    distances[current] + LatencyOf(current, neighbor)

\* The unvisited neighbours of current whose distance the inner loop lowers.
\* With no negative latency the loop never changes distances[current], so the
\* neighbours are relaxed independently of the order the set yields them in.
Relaxed(distances, unvisited, current) ==
    {n \in node_graph[current] \cap unvisited :
        new_distance(distances, current, n) < distances[n]}

\* The while loop of find_best_path: the previous maps it may end with.
\* min() over the set unvisited returns whichever node of least distance the
\* set yields first, and the order of a set of str changes with the
\* interpreter's hash seed: every node of least distance may be current.
RECURSIVE dijkstra(_, _, _, _)
dijkstra(distances, previous, unvisited, target) ==
    IF unvisited = {} THEN {previous}
    ELSE LET least == CHOOSE d \in {distances[n] : n \in unvisited} :
                          \A n \in unvisited : d <= distances[n]
         IN  UNION { IF distances[current] = Infinity THEN {previous}
                     ELSE IF current = target THEN {previous}
                     ELSE LET lower == Relaxed(distances, unvisited, current)
                          IN  dijkstra(
                                [n \in DOMAIN distances |->
                                    IF n \in lower
                                    THEN new_distance(distances, current, n)
                                    ELSE distances[n]],
                                [n \in DOMAIN previous |->
                                    IF n \in lower THEN current ELSE previous[n]],
                                unvisited \ {current}, target)
                   : current \in {n \in unvisited : distances[n] = least} }

\* The path reconstruction of find_best_path: from the target back along
\* previous, reversed.
RECURSIVE reconstruct(_, _)
reconstruct(previous, current) ==
    IF current = None THEN <<>>
    ELSE Append(reconstruct(previous, previous[current]), current)

\* MeshNetworkLayer.find_best_path: the lists it may return.
find_best_path(source, target) ==
    IF source \notin NodeKeys(nodes) \/ target \notin NodeKeys(nodes) THEN {<<>>}
    ELSE IF source = target THEN {<<source>>}
    ELSE { reconstruct(previous, target) :
             previous \in dijkstra(
                 [n \in NodeKeys(nodes) |-> IF n = source THEN 0 ELSE Infinity],
                 [n \in NodeKeys(nodes) |-> None],
                 NodeKeys(nodes), target) }

\* A call of find_best_path; it changes nothing.
FindBestPath(source, target) ==
    /\ \E path \in find_best_path(source, target) :
           last' = NetCall("find_best_path", source, target, path)
    /\ UNCHANGED netVars
    /\ UNCHANGED repVars
    /\ UNCHANGED <<guardVars, threads, local_cache>>

\* ---------------------------------------------- CodeReplicationManager
\* CodeReplica(...) as register_file builds it; __post_init__ fills the hash.
NewReplica(node_id, content, hash, timestamp, version) ==
    [node_id |-> node_id,
     node_type |-> NodeAt(nodes, node_id).node_type,
     content |-> content,
     hash |-> IF hash = "" THEN Hash(content) ELSE hash,
     timestamp |-> timestamp,
     version |-> version]

\* FileMetadata(file_id, path, replicas={node: replica}) with the defaults of
\* its other fields.
FileMetadata(file_id, path, replica) ==
    [file_id |-> file_id,
     path |-> path,
     replicas |-> <<replica>>,
     sync_state |-> "synced",
     guardian_id |-> None,
     secondary_guardians |-> <<>>,
     access_log |-> <<>>]

\* CodeReplicationManager.register_file
RegisterFile(file_id, path, initial_content, primary_node) ==
    /\ IF file_id \in DOMAIN files
       THEN /\ UNCHANGED repVars
            /\ last' = Call("register_file", file_id, primary_node, initial_content, FALSE)
       ELSE IF primary_node \notin NodeKeys(nodes)
       THEN \* self.network.nodes[primary_node] raises KeyError before anything is stored
            /\ UNCHANGED repVars
            /\ last' = [Call("register_file", file_id, primary_node, initial_content, FALSE)
                            EXCEPT !.raised = "KeyError"]
       ELSE \E s \in Stamps(1) :
            /\ files' = files @@ (file_id :>
                 FileMetadata(file_id, path,
                              NewReplica(primary_node, initial_content, "", s[1], 1)))
            /\ clock' = ClockAfter(s)
            /\ UNCHANGED sync_events
            /\ last' = Call("register_file", file_id, primary_node, initial_content, TRUE)
    /\ UNCHANGED netVars
    /\ UNCHANGED <<guardVars, threads, local_cache>>

\* The loop of replicate_file over target_nodes: a target that is a registered
\* node and holds no replica yet gets a copy of primary, stamped with the next
\* datetime.now() reading; any other target is passed over.
RECURSIVE replicate_loop(_, _, _, _)
replicate_loop(replicas, target_nodes, primary, stamps) ==
    IF Len(target_nodes) = 0 THEN replicas
    ELSE LET node_id == Head(target_nodes)
         IN  IF /\ node_id \in NodeKeys(nodes)
                /\ node_id \notin {replicas[i].node_id : i \in 1..Len(replicas)}
             THEN replicate_loop(
                      Append(replicas,
                             NewReplica(node_id, primary.content, primary.hash,
                                        Head(stamps), primary.version)),
                      Tail(target_nodes), primary, Tail(stamps))
             ELSE replicate_loop(replicas, Tail(target_nodes), primary, stamps)

\* The targets replicate_file creates a replica for, each once.
NewTargets(meta, target_nodes) ==
    {n \in Range(target_nodes) : n \in NodeKeys(nodes) /\ n \notin ReplicaKeys(meta)}

\* CodeReplicationManager.replicate_file
ReplicateFile(file_id, target_nodes) ==
    /\ IF file_id \notin DOMAIN files
       THEN /\ UNCHANGED repVars
            /\ last' = Call("replicate_file", file_id, None, None, FALSE)
       ELSE LET metadata == files[file_id]
                primary == get_primary_replica(metadata)
            IN  IF primary = NoReplica
                THEN /\ UNCHANGED repVars
                     /\ last' = Call("replicate_file", file_id, None, None, FALSE)
                ELSE \E s \in Stamps(Cardinality(NewTargets(metadata, target_nodes))) :
                     /\ files' = [files EXCEPT ![file_id].replicas =
                                     replicate_loop(metadata.replicas, target_nodes, primary, s)]
                     /\ clock' = ClockAfter(s)
                     /\ UNCHANGED sync_events
                     /\ last' = Call("replicate_file", file_id, None, None, TRUE)
    /\ UNCHANGED netVars
    /\ UNCHANGED <<guardVars, threads, local_cache>>

\* The loop of sync_file over the replicas: every replica but the source
\* node's is overwritten and its version incremented.
RECURSIVE sync_loop(_, _, _, _, _)
sync_loop(replicas, new_content, new_hash, source_node, stamps) ==
    IF Len(replicas) = 0 THEN <<>>
    ELSE LET replica == Head(replicas)
         IN  IF replica.node_id # source_node
             THEN <<[replica EXCEPT !.content = new_content,
                                    !.hash = new_hash,
                                    !.timestamp = Head(stamps),
                                    !.version = replica.version + 1]>>
                  \o sync_loop(Tail(replicas), new_content, new_hash, source_node, Tail(stamps))
             ELSE <<replica>>
                  \o sync_loop(Tail(replicas), new_content, new_hash, source_node, stamps)

\* target_nodes of sync_file: the replica holders other than the source, in
\* replica order.
SyncTargets(replicas, source_node) ==
    SelectSeq([i \in 1..Len(replicas) |-> replicas[i].node_id],
              LAMBDA n : n # source_node)

\* sync_file reporting synced without looking at the replicas.
sync_state_unchecked(metadata) == "synced"

\* sync_file marking a file whose replicas differ as in conflict.
sync_state_conflict(metadata) ==
    IF replicas_consistent(metadata) THEN "synced" ELSE "conflict"

\* The state sync_file leaves the file in.
sync_state_after(metadata) ==
    IF replicas_consistent(metadata) THEN "synced" ELSE "pending"

\* Every FileMetadata sharing one replicas dict and one sync state: what is
\* written through one file's metadata shows in all.
with_file_shared(fs, file_id, metadata) ==
    [g \in DOMAIN fs |->
        [fs[g] EXCEPT !.replicas = metadata.replicas, !.sync_state = metadata.sync_state]]

\* metadata = self.files[file_id]: the call writes through metadata, to that
\* file's record alone.
with_file(fs, file_id, metadata) == [fs EXCEPT ![file_id] = metadata]

\* CodeReplicationManager.sync_file.  The SyncEvent's own event_id, timestamp
\* and latency_ms are never read back and are left out of the record; the
\* event's datetime.now() reading falls between the last replica's and the
\* next call's, which Stamps already lets be equal or later.
SyncFile(file_id, new_content, source_node) ==
    /\ IF file_id \notin DOMAIN files
       THEN /\ UNCHANGED repVars
            /\ last' = Call("sync_file", file_id, source_node, new_content, FALSE)
       ELSE LET metadata == files[file_id]
                new_hash == Hash(new_content)
                target_nodes == SyncTargets(metadata.replicas, source_node)
            IN  /\ Len(sync_events) < MaxEvents
                /\ \A i \in 1..Len(metadata.replicas) :
                       metadata.replicas[i].node_id # source_node
                           => metadata.replicas[i].version < MaxVersion
                /\ \E s \in Stamps(Len(target_nodes)) :
                     LET updated == [metadata EXCEPT !.replicas =
                                        sync_loop(metadata.replicas, new_content, new_hash,
                                                  source_node, s)]
                         event == [file_id |-> file_id,
                                   source_node |-> source_node,
                                   target_nodes |-> target_nodes,
                                   new_hash |-> new_hash,
                                   old_hash |-> IF get_primary_replica(updated) # NoReplica
                                                THEN get_primary_replica(updated).hash
                                                ELSE None,
                                   success |-> TRUE]
                     IN  /\ files' = with_file(files, file_id,
                                         [updated EXCEPT !.sync_state = sync_state_after(updated)])
                         /\ sync_events' = Append(sync_events, event)
                         /\ clock' = ClockAfter(s)
                         /\ last' = Call("sync_file", file_id, source_node, new_content, TRUE)
    /\ UNCHANGED netVars
    /\ UNCHANGED <<guardVars, threads, local_cache>>

\* resolve_conflict incrementing the overwritten replica's own version.
resolved_version_own(winning, replica) == replica.version + 1

\* The version resolve_conflict gives every replica it overwrites.
resolved_version(winning, replica) == winning.version + 1

\* The loop of resolve_conflict: the winning replica is copied over every
\* other replica.
RECURSIVE resolve_loop(_, _, _)
resolve_loop(replicas, winning, stamps) ==
    IF Len(replicas) = 0 THEN <<>>
    ELSE LET replica == Head(replicas)
         IN  IF replica.node_id # winning.node_id
             THEN <<[replica EXCEPT !.content = winning.content,
                                    !.hash = winning.hash,
                                    !.version = resolved_version(winning, replica),
                                    !.timestamp = Head(stamps)]>>
                  \o resolve_loop(Tail(replicas), winning, Tail(stamps))
             ELSE <<replica>> \o resolve_loop(Tail(replicas), winning, stamps)

\* resolve_conflict refusing a file that is already synced.
resolve_accepts_unsynced(file_id, winning_replica_node) ==
    /\ file_id \in DOMAIN files
    /\ winning_replica_node \in ReplicaKeys(files[file_id])
    /\ files[file_id].sync_state # "synced"

\* Whether resolve_conflict goes on to copy the winner (its two early returns
\* passed).
resolve_accepts(file_id, winning_replica_node) ==
    /\ file_id \in DOMAIN files
    /\ winning_replica_node \in ReplicaKeys(files[file_id])

\* CodeReplicationManager.resolve_conflict
ResolveConflict(file_id, winning_replica_node) ==
    /\ IF ~resolve_accepts(file_id, winning_replica_node)
       THEN /\ UNCHANGED repVars
            /\ last' = Call("resolve_conflict", file_id, winning_replica_node, None, FALSE)
       ELSE LET metadata == files[file_id]
                winning == ReplicaAt(metadata, winning_replica_node)
            IN  /\ winning.version < MaxVersion
                /\ \E s \in Stamps(Len(metadata.replicas) - 1) :
                     /\ files' = [files EXCEPT
                                     ![file_id].replicas = resolve_loop(metadata.replicas, winning, s),
                                     ![file_id].sync_state = "synced"]
                     /\ clock' = ClockAfter(s)
                     /\ UNCHANGED sync_events
                     /\ last' = [Call("resolve_conflict", file_id, winning_replica_node, None, TRUE)
                                     EXCEPT !.again = /\ last.op = "resolve_conflict"
                                                      /\ last.ret = TRUE
                                                      /\ last.file_id = file_id
                                                      /\ last.node = winning_replica_node]
    /\ UNCHANGED netVars
    /\ UNCHANGED <<guardVars, threads, local_cache>>

\* ------------------------------------------------- MeshIDECoordinator
\* The dict get_replication_status returns; {} for an unknown file.
replication_status(file_id) ==
    IF file_id \notin DOMAIN files THEN <<>>
    ELSE LET metadata == files[file_id]
         IN  [file_id |-> file_id,
              sync_state |-> metadata.sync_state,
              replicas |-> [i \in 1..Len(metadata.replicas) |->
                              [node_id |-> metadata.replicas[i].node_id,
                               node_type |-> metadata.replicas[i].node_type,
                               version |-> metadata.replicas[i].version,
                               hash |-> metadata.replicas[i].hash,
                               timestamp |-> metadata.replicas[i].timestamp]],
              consistent |-> replicas_consistent(metadata)]

\* MeshIDECoordinator.get_replication_status
GetReplicationStatus(file_id) ==
    /\ last' = Call("get_replication_status", file_id, None, None,
                    replication_status(file_id))
    /\ UNCHANGED netVars
    /\ UNCHANGED repVars
    /\ UNCHANGED <<guardVars, threads, local_cache>>

\* ---------------------------------------------------- ExecutionRouter
\* [n for n in self.network.nodes.values() if n.node_type == t], in registry
\* order.
NodesOfType(t) == SelectSeq(nodes, LAMBDA n : n.node_type = t)

\* ... if n.node_type == t and n.is_available()
AvailableOfType(t) == SelectSeq(nodes, LAMBDA n : n.node_type = t /\ is_available(n))

\* min(seq, key=lambda n: n.<key>): the first element, in order, whose field
\* key is least.
MinBy(seq, key) ==
    seq[CHOOSE i \in 1..Len(seq) :
            /\ \A j \in 1..Len(seq) : seq[i][key] <= seq[j][key]
            /\ \A j \in 1..(i-1) : seq[i][key] < seq[j][key]]

\* The edge branch taking the first available edge node.
edge_primary_first(edge_nodes) == edge_nodes[1].node_id

\* min(edge_nodes, key=lambda n: n.latency_ms).node_id
edge_primary(edge_nodes) == MinBy(edge_nodes, "latency_ms").node_id

\* min(cloud_nodes, key=lambda n: n.load).node_id
cloud_primary(cloud_nodes) == MinBy(cloud_nodes, "load").node_id

\* The hybrid branch listing every other node, available or not.
backup_candidates_any(developer_node) ==
    LET others == SelectSeq(nodes, LAMBDA n : n.node_id # developer_node)
    IN  [i \in 1..Len(others) |-> others[i].node_id]

\* [n.node_id for n in nodes.values() if n.node_id != developer_node and
\* n.is_available()]
backup_candidates(developer_node) ==
    LET others == SelectSeq(nodes, LAMBDA n : n.node_id # developer_node /\ is_available(n))
    IN  [i \in 1..Len(others) |-> others[i].node_id]

\* The primary node plan_execution chooses; None when its branch assigns none.
primary_node_for(context, developer_node) ==
    CASE context = "local" -> developer_node
      [] context = "edge" ->
            IF Len(AvailableOfType("edge")) > 0
            THEN edge_primary(AvailableOfType("edge")) ELSE None
      [] context = "cloud" ->
            IF Len(AvailableOfType("cloud")) > 0
            THEN cloud_primary(AvailableOfType("cloud")) ELSE None
      [] context = "quantum" ->
            IF Len(NodesOfType("quantum")) > 0
            THEN NodesOfType("quantum")[1].node_id ELSE None
      [] context = "hybrid" -> developer_node

\* plan.backup_nodes: backup_nodes[:2] for hybrid, the default [] otherwise.
backup_nodes_for(context, developer_node) ==
    IF context = "hybrid"
    THEN SubSeq(backup_candidates(developer_node), 1,
                IF Len(backup_candidates(developer_node)) < PlanBackups
                THEN Len(backup_candidates(developer_node)) ELSE PlanBackups)
    ELSE <<>>

\* ExecutionRouter.plan_execution: None for an unknown file, else the plan.
\* plan_id (a uuid), estimated_time_ms and confidence (never assigned) are
\* left out.
plan_execution(file_id, context, developer_node) ==
    IF file_id \notin DOMAIN files THEN NoPlan
    ELSE LET primary_node == primary_node_for(context, developer_node)
             backup_nodes == backup_nodes_for(context, developer_node)
             metadata == files[file_id]
         IN  [file_id |-> file_id,
              target_context |-> context,
              primary_node |-> primary_node,
              backup_nodes |-> backup_nodes,
              steps |-> <<
                [step |-> 1, action |-> "fetch_replica", node |-> primary_node],
                [step |-> 2, action |-> "compile", node |-> primary_node],
                [step |-> 3, action |-> "execute", node |-> primary_node],
                [step |-> 4, action |-> "verify",
                 node |-> IF Len(backup_nodes) > 0 THEN backup_nodes[1] ELSE primary_node],
                [step |-> 5, action |-> "sync_results",
                 nodes |-> [i \in 1..Len(metadata.replicas) |-> metadata.replicas[i].node_id]]
              >>]

\* A call of plan_execution; it changes nothing.
PlanExecution(file_id, context, developer_node) ==
    /\ last' = Call("plan_execution", file_id, developer_node, context,
                    plan_execution(file_id, context, developer_node))
    /\ UNCHANGED <<netVars, repVars, guardVars, threads, local_cache>>

\* ------------------------------------------------ GuardianAgentSystem
\* agent_id = f"guardian_{file_id}_{uuid.uuid4().hex[:8]}": uuid4 draws a
\* value no earlier call drew, which the serial number of the agent stands for.
AgentId(ag, file_id) == <<"guardian", file_id, Cardinality(DOMAIN ag) + 1>>

\* GuardianAgent(agent_id, file_id, role, node_id, status="active")
GuardianAgent(agent_id, file_id, role, node_id) ==
    [agent_id |-> agent_id, file_id |-> file_id, role |-> role, node_id |-> node_id,
     status |-> "active"]

\* create_guardian registering under the file id whichever agent came last.
primary_guardian_latest(fg, file_id, agent_id) ==
    (file_id :> agent_id) @@ fg

\* if file_id not in self.file_guardians: self.file_guardians[file_id] = agent_id
primary_guardian(fg, file_id, agent_id) ==
    IF file_id \notin DOMAIN fg THEN fg @@ (file_id :> agent_id) ELSE fg

\* GuardianAgentSystem.create_guardian on the registries ag and fg: the
\* registries it leaves and the agent it returns.
create_guardian(ag, fg, file_id, node_id, role) ==
    LET agent == GuardianAgent(AgentId(ag, file_id), file_id, role, node_id)
    IN  [agents |-> (agent.agent_id :> agent) @@ ag,
         file_guardians |-> primary_guardian(fg, file_id, agent.agent_id),
         agent |-> agent]

\* A call of create_guardian.
CreateGuardian(file_id, node_id, role) ==
    /\ Cardinality(DOMAIN agents) < MaxAgents
    /\ LET made == create_guardian(agents, file_guardians, file_id, node_id, role)
       IN  /\ agents' = made.agents
           /\ file_guardians' = made.file_guardians
           /\ last' = Call("create_guardian", file_id, node_id, None, made.agent)
    /\ UNCHANGED <<netVars, repVars, threads, local_cache>>

\* GuardianAgentSystem.add_secondary_guardian on the file registry fs.
add_secondary_guardian(fs, ag, file_id, agent_id) ==
    IF file_id \notin DOMAIN fs THEN [files |-> fs, ret |-> FALSE]
    ELSE IF agent_id \notin DOMAIN ag THEN [files |-> fs, ret |-> FALSE]
    ELSE IF agent_id \notin Range(fs[file_id].secondary_guardians)
    THEN [files |-> [fs EXCEPT ![file_id].secondary_guardians = Append(@, agent_id)],
          ret |-> TRUE]
    ELSE [files |-> fs, ret |-> TRUE]

\* A call of add_secondary_guardian.
AddSecondaryGuardian(file_id, agent_id) ==
    /\ LET added == add_secondary_guardian(files, agents, file_id, agent_id)
       IN  /\ files' = added.files
           /\ last' = Call("add_secondary_guardian", file_id, None, None, added.ret)
    /\ UNCHANGED <<netVars, sync_events, clock, guardVars, threads, local_cache>>

\* The dict monitor_file returns for a file that has a guardian and a record.
monitor_status(file_id) ==
    LET guardian_id == file_guardians[file_id]
        guardian == agents[guardian_id]
        metadata == files[file_id]
        primary == get_primary_replica(metadata)
    IN  [file_id |-> file_id,
         guardian_id |-> guardian_id,
         guardian_status |-> guardian.status,
         sync_state |-> metadata.sync_state,
         replica_count |-> Len(metadata.replicas),
         replicas_consistent |-> replicas_consistent(metadata),
         version |-> IF primary # NoReplica THEN primary.version ELSE 0,
         last_sync |-> IF primary # NoReplica THEN primary.timestamp ELSE -1,
         access_count |-> Len(metadata.access_log)]

\* GuardianAgentSystem.monitor_file: {} without a guardian; with a guardian
\* but no file record, self.replication.files[file_id] raises KeyError.
MonitorFile(file_id) ==
    /\ IF file_id \notin DOMAIN file_guardians
       THEN last' = Call("monitor_file", file_id, None, None, <<>>)
       ELSE IF file_id \notin DOMAIN files
       THEN last' = [Call("monitor_file", file_id, None, None, <<>>)
                        EXCEPT !.raised = "KeyError"]
       ELSE last' = Call("monitor_file", file_id, None, None, monitor_status(file_id))
    /\ UNCHANGED <<netVars, repVars, guardVars, threads, local_cache>>

\* The agent ids add_secondary_guardian is called with: the first two an
\* agent may get, known to the registry once that agent is created.
AgentIds == {<<"guardian", f, n>> : f \in GuardianFileIds, n \in 1..2}

\* ------------------------------------------------- MeshIDECoordinator
\* f"file_{hashlib.md5(path.encode()).hexdigest()[:8]}"
FileIdOf(path) ==
    CASE path = "test.py" -> "file_b284a287"
      [] path = "src/main.py" -> "file_0c81b9c9"
      [] OTHER -> "file_d41d8cd9"

\* register_file rewriting the replicas of a file it already knows.
registered_files_rewrite(fs, file_id, path, content, primary_node, stamps) ==
    IF file_id \in DOMAIN fs
    THEN [fs EXCEPT ![file_id].replicas =
             [i \in 1..Len(@) |-> [@[i] EXCEPT !.content = content, !.hash = Hash(content)]]]
    ELSE fs @@ (file_id :>
             FileMetadata(file_id, path, NewReplica(primary_node, content, "", stamps[1], 1)))

\* The files register_file leaves, its return value ignored as add_file
\* ignores it: a known file id is left alone.
registered_files(fs, file_id, path, content, primary_node, stamps) ==
    IF file_id \in DOMAIN fs THEN fs
    ELSE fs @@ (file_id :>
             FileMetadata(file_id, path, NewReplica(primary_node, content, "", stamps[1], 1)))

\* replica_nodes of add_file: the first two available nodes other than the
\* primary node, in registry order.
replica_nodes(primary_node) ==
    LET others == SelectSeq(nodes, LAMBDA n : n.node_id # primary_node /\ is_available(n))
        ids == [i \in 1..Len(others) |-> others[i].node_id]
    IN  SubSeq(ids, 1, IF Len(ids) < ReplicaTargets THEN Len(ids) ELSE ReplicaTargets)

\* The files replicate_file leaves, its return value ignored as add_file
\* ignores it.
replicated_files(fs, file_id, target_nodes, stamps) ==
    IF file_id \notin DOMAIN fs THEN fs
    ELSE LET metadata == fs[file_id]
             primary == get_primary_replica(metadata)
         IN  IF primary = NoReplica THEN fs
             ELSE [fs EXCEPT ![file_id].replicas =
                      replicate_loop(metadata.replicas, target_nodes, primary, stamps)]

\* The loop of add_file over replica_nodes: a monitor agent is created on
\* each node and added to the file's secondary guardians.
RECURSIVE secondary_loop(_, _, _, _, _)
secondary_loop(fs, ag, fg, file_id, node_ids) ==
    IF Len(node_ids) = 0 THEN [files |-> fs, agents |-> ag, file_guardians |-> fg]
    ELSE LET made == create_guardian(ag, fg, file_id, Head(node_ids), "monitor")
             added == add_secondary_guardian(fs, made.agents, file_id, made.agent.agent_id)
         IN  secondary_loop(added.files, made.agents, made.file_guardians, file_id,
                            Tail(node_ids))

\* The call record of an add_file: its Call record with the path.
AddFileCall(path, content, primary_node, r) ==
    [op |-> "add_file", file_id |-> FileIdOf(path), node |-> primary_node,
     content |-> content, ret |-> r, raised |-> None, again |-> FALSE, path |-> path]

\* MeshIDECoordinator.add_file
AddFile(path, content, primary_node) ==
    /\ LET file_id == FileIdOf(path)
           fresh == file_id \notin DOMAIN files
           targets == replica_nodes(primary_node)
           held == IF fresh THEN {primary_node} ELSE ReplicaKeys(files[file_id])
           new == SelectSeq(targets, LAMBDA n : n \notin held)
       IN  IF fresh /\ primary_node \notin NodeKeys(nodes)
           THEN \* register_file raises KeyError out of add_file, nothing stored
                /\ UNCHANGED <<repVars, guardVars>>
                /\ last' = [AddFileCall(path, content, primary_node, None)
                                EXCEPT !.raised = "KeyError"]
           ELSE /\ Cardinality(DOMAIN agents) + 1 + Len(targets) <= MaxFileAgents
                /\ \E s \in Stamps((IF fresh THEN 1 ELSE 0) + Len(new)) :
                     LET registered == registered_files(files, file_id, path, content,
                                                        primary_node, s)
                         guarded == create_guardian(agents, file_guardians, file_id,
                                                    primary_node, "guardian")
                         replicated == replicated_files(registered, file_id, targets,
                                           IF fresh THEN Tail(s) ELSE s)
                         done == secondary_loop(replicated, guarded.agents,
                                                guarded.file_guardians, file_id, targets)
                     IN  /\ files' = done.files
                         /\ agents' = done.agents
                         /\ file_guardians' = done.file_guardians
                         /\ clock' = ClockAfter(s)
                         /\ UNCHANGED sync_events
                         /\ last' = AddFileCall(path, content, primary_node, file_id)
    /\ UNCHANGED <<netVars, threads, local_cache>>

\* ---------------------------------------------------- MeshFileManager
\* The call record of an open_file: its Call record with the path.
OpenFileCall(path, developer_node, r) ==
    [op |-> "open_file", file_id |-> FileIdOf(path), node |-> developer_node,
     content |-> None, ret |-> r, raised |-> None, again |-> FALSE, path |-> path]

\* MeshFileManager.open_file: None for an unknown file; otherwise the primary
\* replica's content, which is also put in the local cache.
OpenFile(path, developer_node) ==
    /\ LET file_id == FileIdOf(path)
       IN  IF file_id \notin DOMAIN files
           THEN /\ UNCHANGED local_cache
                /\ last' = OpenFileCall(path, developer_node, None)
           ELSE LET primary == get_primary_replica(files[file_id])
                IN  IF primary # NoReplica
                    THEN /\ local_cache' = (file_id :> primary.content) @@ local_cache
                         /\ last' = OpenFileCall(path, developer_node, primary.content)
                    ELSE /\ UNCHANGED local_cache
                         /\ last' = OpenFileCall(path, developer_node, None)
    /\ UNCHANGED <<netVars, repVars, guardVars, threads>>

\* MeshFileManager.save_file: False for an unknown file; otherwise the content
\* is put in the local cache and MeshIDECoordinator.sync_file, which is
\* CodeReplicationManager.sync_file, is run and its result returned.
SaveFile(file_id, content, developer_node) ==
    /\ IF file_id \notin DOMAIN files
       THEN /\ UNCHANGED <<repVars, local_cache>>
            /\ last' = Call("save_file", file_id, developer_node, content, FALSE)
       ELSE LET metadata == files[file_id]
                new_hash == Hash(content)
                target_nodes == SyncTargets(metadata.replicas, developer_node)
            IN  /\ Len(sync_events) < MaxEvents
                /\ \A i \in 1..Len(metadata.replicas) :
                       metadata.replicas[i].node_id # developer_node
                           => metadata.replicas[i].version < MaxVersion
                /\ local_cache' = (file_id :> content) @@ local_cache
                /\ \E s \in Stamps(Len(target_nodes)) :
                     LET updated == [metadata EXCEPT !.replicas =
                                        sync_loop(metadata.replicas, content, new_hash,
                                                  developer_node, s)]
                         event == [file_id |-> file_id,
                                   source_node |-> developer_node,
                                   target_nodes |-> target_nodes,
                                   new_hash |-> new_hash,
                                   old_hash |-> IF get_primary_replica(updated) # NoReplica
                                                THEN get_primary_replica(updated).hash
                                                ELSE None,
                                   success |-> TRUE]
                     IN  /\ files' = with_file(files, file_id,
                                         [updated EXCEPT !.sync_state = sync_state_after(updated)])
                         /\ sync_events' = Append(sync_events, event)
                         /\ clock' = ClockAfter(s)
                         /\ last' = Call("save_file", file_id, developer_node, content, TRUE)
    /\ UNCHANGED <<netVars, guardVars, threads>>

\* ------------------------------------------ calls on concurrent threads
\* sync_file and resolve_conflict take no lock: a call made on a thread runs
\* statement by statement, the interpreter switching threads between any two.

\* The index of the next replica, from i on, that the loop body runs for:
\* one whose node_id differs from skip; past the end when there is none.
NextIdx(replicas, i, skip) ==
    IF \E j \in i..Len(replicas) : replicas[j].node_id # skip
    THEN CHOOSE j \in i..Len(replicas) :
             /\ replicas[j].node_id # skip
             /\ \A k \in i..(j-1) : replicas[k].node_id = skip
    ELSE Len(replicas) + 1

\* The record a thread's call is entered with.
Entered(op, file_id, content, node) ==
    [IdleThread EXCEPT !.op = op, !.file_id = file_id, !.content = content, !.node = node]

\* The first call entered keeps the file registry the calls started from.
ConcurrentRun == IF last.op = "concurrent" THEN last ELSE [op |-> "concurrent", start |-> files]

\* The thread moves on from the body of its loop to the next replica, or out
\* of the loop to pc after.  The dict iterator raises RuntimeError when the
\* dict has changed size since the iteration began.
LoopOn(t, body, after) ==
    LET th == threads[t]
        replicas == files[th.file_id].replicas
        i == NextIdx(replicas, th.i + 1, th.node)
    IN  IF Len(replicas) # th.size
        THEN [th EXCEPT !.pc = "done", !.returned = "RuntimeError"]
        ELSE [th EXCEPT !.i = i, !.pc = IF i > Len(replicas) THEN after ELSE body]

\* sync_file up to its loop: the early return, metadata, new_hash.
SyncEnter(t, file_id, new_content, source_node) ==
    /\ threads[t].pc = "idle"
    /\ IF file_id \notin DOMAIN files
       THEN threads' = [threads EXCEPT ![t] =
                [Entered("sync_file", file_id, new_content, source_node)
                    EXCEPT !.pc = "done", !.returned = "False"]]
       ELSE LET i == NextIdx(files[file_id].replicas, 1, source_node)
            IN  threads' = [threads EXCEPT ![t] =
                    [Entered("sync_file", file_id, new_content, source_node)
                        EXCEPT !.i = i,
                               !.size = Len(files[file_id].replicas),
                               !.pc = IF i > Len(files[file_id].replicas)
                                      THEN "event" ELSE "content"]]
    /\ last' = ConcurrentRun
    /\ UNCHANGED <<netVars, repVars, guardVars>>
    /\ UNCHANGED local_cache

\* replica.content = new_content
SyncContent(t) ==
    /\ threads[t].pc = "content"
    /\ files' = [files EXCEPT ![threads[t].file_id].replicas[threads[t].i].content =
                     threads[t].content]
    /\ threads' = [threads EXCEPT ![t].pc = "hash"]
    /\ UNCHANGED <<netVars, sync_events, clock, guardVars, last>>
    /\ UNCHANGED local_cache

\* replica.hash = new_hash
SyncHash(t) ==
    /\ threads[t].pc = "hash"
    /\ files' = [files EXCEPT ![threads[t].file_id].replicas[threads[t].i].hash =
                     Hash(threads[t].content)]
    /\ threads' = [threads EXCEPT ![t].pc = "timestamp"]
    /\ UNCHANGED <<netVars, sync_events, clock, guardVars, last>>
    /\ UNCHANGED local_cache

\* replica.timestamp = datetime.now()
SyncTimestamp(t) ==
    /\ threads[t].pc = "timestamp"
    /\ \E s \in Stamps(1) :
           /\ files' = [files EXCEPT
                            ![threads[t].file_id].replicas[threads[t].i].timestamp = s[1]]
           /\ clock' = ClockAfter(s)
    /\ threads' = [threads EXCEPT ![t].pc = "version_read"]
    /\ UNCHANGED <<netVars, sync_events, guardVars, last>>
    /\ UNCHANGED local_cache

\* replica.version += 1, the read of replica.version
SyncVersionRead(t) ==
    /\ threads[t].pc = "version_read"
    /\ threads' = [threads EXCEPT
                       ![t].version_read =
                           files[threads[t].file_id].replicas[threads[t].i].version,
                       ![t].pc = "version_write"]
    /\ UNCHANGED <<netVars, repVars, guardVars, last>>
    /\ UNCHANGED local_cache

\* replica.version += 1, the store of the incremented value; then the loop
\* goes on.
SyncVersionWrite(t) ==
    /\ threads[t].pc = "version_write"
    /\ threads[t].version_read < MaxVersion
    /\ files' = [files EXCEPT ![threads[t].file_id].replicas[threads[t].i].version =
                     threads[t].version_read + 1]
    /\ threads' = [threads EXCEPT ![t] = LoopOn(t, "content", "event")]
    /\ UNCHANGED <<netVars, sync_events, clock, guardVars, last>>
    /\ UNCHANGED local_cache

\* The SyncEvent is built and appended.
SyncRecord(t) ==
    /\ threads[t].pc = "event"
    /\ Len(sync_events) < MaxEvents
    /\ LET th == threads[t]
           metadata == files[th.file_id]
       IN  sync_events' = Append(sync_events,
               [file_id |-> th.file_id,
                source_node |-> th.node,
                target_nodes |-> SyncTargets(metadata.replicas, th.node),
                new_hash |-> Hash(th.content),
                old_hash |-> IF get_primary_replica(metadata) # NoReplica
                             THEN get_primary_replica(metadata).hash
                             ELSE None,
                success |-> TRUE])
    /\ threads' = [threads EXCEPT ![t].pc = "consistent"]
    /\ UNCHANGED <<netVars, files, clock, guardVars, last>>
    /\ UNCHANGED local_cache

\* metadata.replicas_consistent() is evaluated
SyncConsistent(t) ==
    /\ threads[t].pc = "consistent"
    /\ threads' = [threads EXCEPT
                       ![t].consistent = replicas_consistent(files[threads[t].file_id]),
                       ![t].pc = "state"]
    /\ UNCHANGED <<netVars, repVars, guardVars, last>>
    /\ UNCHANGED local_cache

\* metadata.sync_state = SYNCED if <consistent> else PENDING; return True
SyncState(t) ==
    /\ threads[t].pc = "state"
    /\ files' = [files EXCEPT ![threads[t].file_id].sync_state =
                     IF threads[t].consistent THEN "synced" ELSE "pending"]
    /\ threads' = [threads EXCEPT ![t].pc = "done", ![t].returned = "True"]
    /\ UNCHANGED <<netVars, sync_events, clock, guardVars, last>>
    /\ UNCHANGED local_cache

\* resolve_conflict up to its loop: the two early returns, winning.
ResolveEnter(t, file_id, winning_replica_node) ==
    /\ threads[t].pc = "idle"
    /\ IF ~resolve_accepts(file_id, winning_replica_node)
       THEN threads' = [threads EXCEPT ![t] =
                [Entered("resolve_conflict", file_id, None, winning_replica_node)
                    EXCEPT !.pc = "done", !.returned = "False"]]
       ELSE LET i == NextIdx(files[file_id].replicas, 1, winning_replica_node)
            IN  threads' = [threads EXCEPT ![t] =
                    [Entered("resolve_conflict", file_id, None, winning_replica_node)
                        EXCEPT !.i = i,
                               !.size = Len(files[file_id].replicas),
                               !.pc = IF i > Len(files[file_id].replicas)
                                      THEN "r_state" ELSE "r_content"]]
    /\ last' = ConcurrentRun
    /\ UNCHANGED <<netVars, repVars, guardVars>>
    /\ UNCHANGED local_cache

\* replica.content = winning.content
ResolveContent(t) ==
    /\ threads[t].pc = "r_content"
    /\ files' = [files EXCEPT ![threads[t].file_id].replicas[threads[t].i].content =
                     ReplicaAt(files[threads[t].file_id], threads[t].node).content]
    /\ threads' = [threads EXCEPT ![t].pc = "r_hash"]
    /\ UNCHANGED <<netVars, sync_events, clock, guardVars, last>>
    /\ UNCHANGED local_cache

\* replica.hash = winning.hash
ResolveHash(t) ==
    /\ threads[t].pc = "r_hash"
    /\ files' = [files EXCEPT ![threads[t].file_id].replicas[threads[t].i].hash =
                     ReplicaAt(files[threads[t].file_id], threads[t].node).hash]
    /\ threads' = [threads EXCEPT ![t].pc = "r_version"]
    /\ UNCHANGED <<netVars, sync_events, clock, guardVars, last>>
    /\ UNCHANGED local_cache

\* replica.version = winning.version + 1
ResolveVersion(t) ==
    /\ threads[t].pc = "r_version"
    /\ ReplicaAt(files[threads[t].file_id], threads[t].node).version < MaxVersion
    /\ files' = [files EXCEPT ![threads[t].file_id].replicas[threads[t].i].version =
                     resolved_version(ReplicaAt(files[threads[t].file_id], threads[t].node),
                                      files[threads[t].file_id].replicas[threads[t].i])]
    /\ threads' = [threads EXCEPT ![t].pc = "r_timestamp"]
    /\ UNCHANGED <<netVars, sync_events, clock, guardVars, last>>
    /\ UNCHANGED local_cache

\* replica.timestamp = datetime.now(); then the loop goes on.
ResolveTimestamp(t) ==
    /\ threads[t].pc = "r_timestamp"
    /\ \E s \in Stamps(1) :
           /\ files' = [files EXCEPT
                            ![threads[t].file_id].replicas[threads[t].i].timestamp = s[1]]
           /\ clock' = ClockAfter(s)
    /\ threads' = [threads EXCEPT ![t] = LoopOn(t, "r_content", "r_state")]
    /\ UNCHANGED <<netVars, sync_events, guardVars, last>>
    /\ UNCHANGED local_cache

\* metadata.sync_state = SyncState.SYNCED; return True
ResolveState(t) ==
    /\ threads[t].pc = "r_state"
    /\ files' = [files EXCEPT ![threads[t].file_id].sync_state = "synced"]
    /\ threads' = [threads EXCEPT ![t].pc = "done", ![t].returned = "True"]
    /\ UNCHANGED <<netVars, sync_events, clock, guardVars, last>>
    /\ UNCHANGED local_cache

\* replicate_file up to its loop: the two early returns, primary.  primary is
\* a reference to the replica object, kept here by its node id.
ReplicateEnter(t, file_id, target_nodes) ==
    /\ threads[t].pc = "idle"
    /\ IF file_id \notin DOMAIN files \/ get_primary_replica(files[file_id]) = NoReplica
       THEN threads' = [threads EXCEPT ![t] =
                [Entered("replicate_file", file_id, None, None)
                    EXCEPT !.targets = target_nodes, !.pc = "done", !.returned = "False"]]
       ELSE threads' = [threads EXCEPT ![t] =
                [Entered("replicate_file", file_id, None,
                         get_primary_replica(files[file_id]).node_id)
                    EXCEPT !.targets = target_nodes, !.i = 1, !.pc = "p_check"]]
    /\ last' = ConcurrentRun
    /\ UNCHANGED <<netVars, repVars, guardVars>>
    /\ UNCHANGED local_cache

\* for node_id in target_nodes: if node_id in self.network.nodes and node_id
\* not in metadata.replicas; return True when the list is exhausted.
ReplicateCheck(t) ==
    /\ threads[t].pc = "p_check"
    /\ LET th == threads[t]
       IN  threads' = [threads EXCEPT ![t] =
               IF th.i > Len(th.targets)
               THEN [th EXCEPT !.pc = "done", !.returned = "True"]
               ELSE IF /\ th.targets[th.i] \in NodeKeys(nodes)
                       /\ th.targets[th.i] \notin ReplicaKeys(files[th.file_id])
                    THEN [th EXCEPT !.pc = "p_content"]
                    ELSE [th EXCEPT !.i = th.i + 1]]
    /\ UNCHANGED <<netVars, repVars, guardVars, last>>
    /\ UNCHANGED local_cache

\* CodeReplica(... content=primary.content: the argument is read
ReplicateContent(t) ==
    /\ threads[t].pc = "p_content"
    /\ threads' = [threads EXCEPT
                       ![t].content = ReplicaAt(files[threads[t].file_id],
                                                threads[t].node).content,
                       ![t].pc = "p_hash"]
    /\ UNCHANGED <<netVars, repVars, guardVars, last>>
    /\ UNCHANGED local_cache

\* CodeReplica(... hash=primary.hash: the argument is read
ReplicateHash(t) ==
    /\ threads[t].pc = "p_hash"
    /\ threads' = [threads EXCEPT
                       ![t].hash = ReplicaAt(files[threads[t].file_id],
                                             threads[t].node).hash,
                       ![t].pc = "p_version"]
    /\ UNCHANGED <<netVars, repVars, guardVars, last>>
    /\ UNCHANGED local_cache

\* CodeReplica(... version=primary.version): the argument is read
ReplicateVersion(t) ==
    /\ threads[t].pc = "p_version"
    /\ threads' = [threads EXCEPT
                       ![t].version_read = ReplicaAt(files[threads[t].file_id],
                                                     threads[t].node).version,
                       ![t].pc = "p_store"]
    /\ UNCHANGED <<netVars, repVars, guardVars, last>>
    /\ UNCHANGED local_cache

\* metadata.replicas[node_id] = replica: the replica built from the values
\* read, stamped datetime.now(), is stored under node_id (a new key goes last,
\* a key another thread stored meanwhile keeps its place); the loop goes on.
ReplicateStore(t) ==
    /\ threads[t].pc = "p_store"
    /\ \E s \in Stamps(1) :
           LET th == threads[t]
               node_id == th.targets[th.i]
               replicas == files[th.file_id].replicas
               replica == NewReplica(node_id, th.content, th.hash, s[1], th.version_read)
           IN  /\ files' = [files EXCEPT ![th.file_id].replicas =
                                IF node_id \in ReplicaKeys(files[th.file_id])
                                THEN [i \in 1..Len(replicas) |->
                                         IF replicas[i].node_id = node_id
                                         THEN replica ELSE replicas[i]]
                                ELSE Append(replicas, replica)]
               /\ clock' = ClockAfter(s)
    /\ threads' = [threads EXCEPT ![t].i = threads[t].i + 1, ![t].pc = "p_check"]
    /\ UNCHANGED <<netVars, sync_events, guardVars, last>>
    /\ UNCHANGED local_cache

\* Target lists of at most ReplicaTargets node ids.
TargetLists == UNION {[1..k -> TargetNodes] : k \in 0..ReplicaTargets}

\* ------------------------------------------------------ specifications
Next ==
    \/ \E f \in FileIds, p \in Paths, c \in InitialContents, n \in PrimaryNodes :
           RegisterFile(f, p, c, n)
    \/ \E f \in FileIds, t \in TargetLists : ReplicateFile(f, t)
    \/ \E f \in FileIds, c \in Contents, n \in SourceNodes : SyncFile(f, c, n)
    \/ \E f \in FileIds, n \in SourceNodes : ResolveConflict(f, n)
    \/ \E f \in FileIds : GetReplicationStatus(f)

\* The replication manager and the coordinator's status view.
Spec == InitMesh /\ [][Next]_vars

NextSync ==
    \/ \E f \in FileIds, p \in Paths, c \in InitialContents, n \in PrimaryNodes :
           RegisterFile(f, p, c, n)
    \/ \E f \in FileIds, t \in TargetLists : ReplicateFile(f, t)
    \/ \E f \in FileIds, c \in Contents, n \in SourceNodes : SyncFile(f, c, n)

\* register_file, replicate_file and sync_file alone: no resolve_conflict, no
\* direct write to a replica.
SpecSync == InitMesh /\ [][NextSync]_vars

NextNet ==
    \/ \E node \in NetNodeSpecs : AddNode(node)
    \/ \E ab \in LinkPairs, l \in Latencies :
           ConnectNodes(ab[1], ab[2], l, DefaultBandwidth)
    \/ \E a \in PathSources, b \in NetNodeIds : FindBestPath(a, b)

\* The topology layer: quantum_1 joins the three nodes, links are made and
\* overwritten, paths are asked for.
SpecNet == InitMesh /\ [][NextNet]_vars

NextGuard ==
    \/ \E f \in FileIds, p \in Paths, c \in InitialContents, n \in PrimaryNodes :
           RegisterFile(f, p, c, n)
    \/ \E f \in GuardianFileIds, n \in GuardianNodes, r \in Roles :
           CreateGuardian(f, n, r)
    \/ \E f \in GuardianFileIds, a \in AgentIds : AddSecondaryGuardian(f, a)
    \/ \E f \in GuardianFileIds : MonitorFile(f)

\* The guardian registry over the replication manager's files.
SpecGuard == InitMesh /\ [][NextGuard]_vars

NextRouter ==
    \/ \E node \in RouterNodeSpecs : AddNode(node)
    \/ \E f \in FileIds, p \in Paths, c \in InitialContents, n \in PrimaryNodes :
           RegisterFile(f, p, c, n)
    \/ \E f \in FileIds, c \in Contexts, n \in DeveloperNodes : PlanExecution(f, c, n)

\* The execution router over a mesh built node by node.
SpecRouter == InitEmpty /\ [][NextRouter]_vars

NextCoord ==
    \/ \E node \in CoordNodeSpecs : AddNode(node)
    \/ \E p \in CoordPaths, c \in Contents, n \in CoordPrimaries : AddFile(p, c, n)

\* The coordinator onboarding files into a mesh built node by node.
SpecCoord == InitEmpty /\ [][NextCoord]_vars

\* No thread has made a call yet.
NoCallYet == \A t \in Threads : threads[t].pc = "idle"

NextConc ==
    \/ /\ NoCallYet
       /\ \E f \in FileIds, p \in Paths, c \in InitialContents, n \in PrimaryNodes :
              RegisterFile(f, p, c, n)
    \/ /\ NoCallYet
       /\ \E f \in FileIds, tl \in ConcTargetLists : ReplicateFile(f, tl)
    \/ \E t \in Threads, f \in FileIds, c \in Contents, n \in SourceNodes :
           SyncEnter(t, f, c, n)
    \/ \E t \in Threads : SyncContent(t)
    \/ \E t \in Threads : SyncHash(t)
    \/ \E t \in Threads : SyncTimestamp(t)
    \/ \E t \in Threads : SyncVersionRead(t)
    \/ \E t \in Threads : SyncVersionWrite(t)
    \/ \E t \in Threads : SyncRecord(t)
    \/ \E t \in Threads : SyncConsistent(t)
    \/ \E t \in Threads : SyncState(t)
    \/ \E t \in Threads, f \in FileIds, n \in SourceNodes : ResolveEnter(t, f, n)
    \/ \E t \in Threads : ResolveContent(t)
    \/ \E t \in Threads : ResolveHash(t)
    \/ \E t \in Threads : ResolveVersion(t)
    \/ \E t \in Threads : ResolveTimestamp(t)
    \/ \E t \in Threads : ResolveState(t)

\* A file is registered and replicated, then each thread makes one sync_file
\* or resolve_conflict call on it, the calls' statements interleaving.
SpecConc == InitMesh /\ [][NextConc]_vars

NextMesh ==
    \/ \E node \in NetNodeSpecs : AddNode(node)
    \/ \E ab \in MeshLinkPairs, l \in MeshLatencies :
           ConnectNodes(ab[1], ab[2], l, DefaultBandwidth)
    \/ \E f \in FileIds, p \in Paths, c \in InitialContents, n \in PrimaryNodes :
           RegisterFile(f, p, c, n)
    \/ \E f \in FileIds, tl \in ConcTargetLists : ReplicateFile(f, tl)
    \/ \E f \in FileIds, c \in Contents, n \in SourceNodes : SyncFile(f, c, n)
    \/ \E f \in FileIds, n \in SourceNodes : ResolveConflict(f, n)

\* The topology layer and the replication manager together.
SpecMesh == InitMesh /\ [][NextMesh]_vars

NextFiles ==
    \/ \E node \in FileNodeSpecs : AddNode(node)
    \/ \E p \in CoordPaths, c \in InitialContents, n \in FilePrimaries : AddFile(p, c, n)
    \/ \E f \in SavedFileIds, c \in Contents, n \in DeveloperNodes : SaveFile(f, c, n)
    \/ \E p \in CoordPaths, n \in DeveloperNodes : OpenFile(p, n)

\* The file manager over the coordinator: a mesh of one or two nodes is built,
\* a file is added, saved and opened.
SpecFiles == InitEmpty /\ [][NextFiles]_vars

NextStates ==
    \/ \E f \in AddedFileIds, p \in CoordPaths, c \in InitialContents, n \in FilePrimaries :
           RegisterFile(f, p, c, n)
    \/ \E p \in CoordPaths, c \in InitialContents, n \in FilePrimaries : AddFile(p, c, n)
    \/ \E f \in AddedFileIds, tl \in ConcTargetLists : ReplicateFile(f, tl)
    \/ \E f \in AddedFileIds, c \in Contents, n \in SourceNodes : SyncFile(f, c, n)
    \/ \E f \in AddedFileIds, n \in SourceNodes : ResolveConflict(f, n)

\* Every call that writes a file's sync state, on a file registered directly
\* or added through the coordinator.
SpecStates == InitMesh /\ [][NextStates]_vars

NextTwoFiles ==
    \/ \E f \in TwoFileIds, p \in Paths, c \in InitialContents, n \in TwoFileDevelopers :
           RegisterFile(f, p, c, n)
    \/ \E f \in TwoFileIds, tl \in ConcTargetLists : ReplicateFile(f, tl)
    \/ \E f \in FileIds, c \in Contents, n \in SourceNodes : SyncFile(f, c, n)
    \/ \E f \in FileIds, n \in SourceNodes : ResolveConflict(f, n)
    \/ \E f \in TwoFileIds, c \in TwoFileContexts, n \in TwoFileDevelopers :
           PlanExecution(f, c, n)
    \/ \E f \in FileIds, n \in TwoFileDevelopers :
           f \notin DOMAIN file_guardians /\ CreateGuardian(f, n, "guardian")
    \/ \E f \in TwoFileIds : MonitorFile(f)

\* Two files in one mesh: both are registered, replicated, planned for and
\* monitored; the first is also synced, resolved and given a guardian.
SpecTwoFiles == InitMesh /\ [][NextTwoFiles]_vars

NextLinks ==
    \/ \E node \in NetNodeSpecs : AddNode(node)
    \/ \E ab \in RelinkPairs, l \in MeshLatencies, bw \in MeshBandwidths :
           ConnectNodes(ab[1], ab[2], l, bw)

\* add_node and connect_nodes alone, links being replaced with other
\* latencies and bandwidths.
SpecLinks == InitMesh /\ [][NextLinks]_vars

NextRepSync ==
    \/ /\ NoCallYet
       /\ \E f \in FileIds, p \in Paths, c \in InitialContents, n \in PrimaryNodes :
              RegisterFile(f, p, c, n)
    \/ /\ NoCallYet
       /\ \E f \in FileIds, tl \in ConcTargetLists : ReplicateFile(f, tl)
    \/ \E t \in Threads, f \in FileIds, c \in Contents, n \in SourceNodes :
           SyncEnter(t, f, c, n)
    \/ \E t \in Threads : SyncContent(t)
    \/ \E t \in Threads : SyncHash(t)
    \/ \E t \in Threads : SyncTimestamp(t)
    \/ \E t \in Threads : SyncVersionRead(t)
    \/ \E t \in Threads : SyncVersionWrite(t)
    \/ \E t \in Threads : SyncRecord(t)
    \/ \E t \in Threads : SyncConsistent(t)
    \/ \E t \in Threads : SyncState(t)
    \/ \E t \in Threads, f \in FileIds, tl \in ConcNewTargetLists : ReplicateEnter(t, f, tl)
    \/ \E t \in Threads : ReplicateCheck(t)
    \/ \E t \in Threads : ReplicateContent(t)
    \/ \E t \in Threads : ReplicateHash(t)
    \/ \E t \in Threads : ReplicateVersion(t)
    \/ \E t \in Threads : ReplicateStore(t)

\* A file is registered and replicated, then each thread makes one sync_file
\* or replicate_file call on it, the calls' statements interleaving.
SpecRepSync == InitMesh /\ [][NextRepSync]_vars

\* ------------------------------------------------------------- claims
\* All replicas of a file carry one content hash.
HashesIdentical(meta) ==
    \A i, j \in 1..Len(meta.replicas) : meta.replicas[i].hash = meta.replicas[j].hash

\* The replicas of a file with the latest timestamp.
LatestReplicas(meta) ==
    {r \in Range(meta.replicas) :
        \A q \in Range(meta.replicas) : q.timestamp <= r.timestamp}

\* C1: after any sequence of registerFile, replicate and sync calls (no
\* resolveConflict), all replicas of every file carry the same content hash.
C1_ReplicasAlwaysConsistent ==
    \A f \in DOMAIN files : HashesIdentical(files[f])

\* C2: after a sync that returned success, every replica of the file, the
\* source node's included, has the synced content.
C2_SyncReachesEveryReplica ==
    (last.op = "sync_file" /\ last.ret = TRUE)
        => \A r \in Range(files[last.file_id].replicas) : r.content = last.content

\* C3: a file's syncState is synced if and only if all of its replicas have
\* identical content hashes.
C3_SyncedIffHashesIdentical ==
    \A f \in DOMAIN files :
        (files[f].sync_state = "synced") <=> HashesIdentical(files[f])

\* A file left pending by a sync, its replicas holding different hashes.
C3_Witness ==
    \E f \in DOMAIN files :
        /\ files[f].sync_state = "pending"
        /\ Len(files[f].replicas) = 3
        /\ ~HashesIdentical(files[f])
        /\ last.op = "sync_file"

\* C4: the version of a node's replica never decreases, whatever replicate,
\* sync or resolveConflict call is made.
C4_VersionNeverDecreases ==
    [][\A f \in DOMAIN files : \A n \in ReplicaKeys(files[f]) :
           ReplicaAt(files'[f], n).version >= ReplicaAt(files[f], n).version]_vars

\* C5: a successful resolveConflict leaves every replica with the winner's
\* content and hash, every overwritten replica at the winner's version plus
\* one, the winner's replica unchanged, the replicas consistent and the file
\* synced.
C5_ResolvePostcondition ==
    [][(last'.op = "resolve_conflict" /\ last'.ret = TRUE) =>
        LET before == files[last'.file_id]
            after == files'[last'.file_id]
            winner == ReplicaAt(before, last'.node)
        IN  /\ [i \in 1..Len(after.replicas) |-> after.replicas[i].node_id]
                 = [i \in 1..Len(before.replicas) |-> before.replicas[i].node_id]
            /\ \A r \in Range(after.replicas) :
                   /\ r.content = winner.content
                   /\ r.hash = winner.hash
                   /\ r.node_id # winner.node_id => r.version = winner.version + 1
            /\ ReplicaAt(after, last'.node) = winner
            /\ HashesIdentical(after)
            /\ replicas_consistent(after)
            /\ after.sync_state = "synced"]_vars

\* A resolve that overwrote two replicas of a file whose winner had already
\* been synced to.
C5_Witness ==
    /\ last.op = "resolve_conflict"
    /\ last.ret = TRUE
    /\ Len(files[last.file_id].replicas) = 3
    /\ ReplicaAt(files[last.file_id], last.node).version = 2
    /\ \A r \in Range(files[last.file_id].replicas) :
           r.node_id # last.node => r.version = 3

\* C6: a resolveConflict repeated right after a successful one, same file and
\* winner, succeeds and leaves every replica's content and hash as the first
\* call left them, the file still synced.
C6_ResolveTwiceSameContent ==
    [][(/\ last.op = "resolve_conflict"
        /\ last.ret = TRUE
        /\ last'.op = "resolve_conflict"
        /\ last'.file_id = last.file_id
        /\ last'.node = last.node) =>
        LET before == files[last.file_id]
            after == files'[last.file_id]
        IN  /\ last'.ret = TRUE
            /\ Len(after.replicas) = Len(before.replicas)
            /\ \A i \in 1..Len(before.replicas) :
                   /\ after.replicas[i].node_id = before.replicas[i].node_id
                   /\ after.replicas[i].content = before.replicas[i].content
                   /\ after.replicas[i].hash = before.replicas[i].hash
            /\ after.sync_state = "synced"]_vars

\* A second resolve in a row on a file of three replicas.
C6_Witness ==
    /\ last.op = "resolve_conflict"
    /\ last.ret = TRUE
    /\ last.again
    /\ Len(files[last.file_id].replicas) = 3

\* C7: a sync that returned success is visible to the next
\* getReplicationStatus on the file: some replica is reported with the hash
\* of the synced content, and the reported state and consistency flag are the
\* file's.
C7_SyncVisibleToStatus ==
    [][(/\ last.op = "sync_file"
        /\ last.ret = TRUE
        /\ last'.op = "get_replication_status"
        /\ last'.file_id = last.file_id) =>
        LET status == last'.ret
        IN  /\ \E i \in DOMAIN status.replicas :
                   status.replicas[i].hash = Hash(last.content)
            /\ status.sync_state = files[last.file_id].sync_state
            /\ status.consistent = HashesIdentical(files[last.file_id])]_vars

\* C8: replicate on a registered file returns success, adds exactly one
\* replica per target that is a registered node holding none yet, each a copy
\* (content, hash, version) of the most recently updated replica, skips the
\* other targets, and leaves the earlier replicas and the syncState alone.
C8_ReplicatePostcondition ==
    [][\A f \in FileIds, t \in TargetLists :
        (last'.op = "replicate_file" /\ f \in DOMAIN files /\ ReplicateFile(f, t)) =>
            LET before == files[f]
                after == files'[f]
                new == {n \in Range(t) :
                           n \in NodeKeys(nodes) /\ n \notin ReplicaKeys(before)}
            IN  /\ last'.ret = TRUE
                /\ ReplicaKeys(after) = ReplicaKeys(before) \cup new
                /\ Len(after.replicas) = Len(before.replicas) + Cardinality(new)
                /\ \E p \in LatestReplicas(before) : \A n \in new :
                       /\ ReplicaAt(after, n).content = p.content
                       /\ ReplicaAt(after, n).hash = p.hash
                       /\ ReplicaAt(after, n).version = p.version
                /\ \A n \in ReplicaKeys(before) :
                       ReplicaAt(after, n) = ReplicaAt(before, n)
                /\ after.sync_state = before.sync_state]_vars

\* A replicate that copied the later of two differing replicas to cloud_1.
C8_Witness ==
    /\ last.op = "replicate_file"
    /\ last.ret = TRUE
    /\ LET meta == files[last.file_id]
       IN  /\ Len(meta.replicas) = 3
           /\ meta.replicas[3].node_id = "cloud_1"
           /\ meta.replicas[3].timestamp = clock
           /\ meta.replicas[1].timestamp < meta.replicas[2].timestamp
           /\ meta.replicas[1].hash # meta.replicas[2].hash
           /\ meta.replicas[3].hash = meta.replicas[2].hash
           /\ meta.replicas[3].version = 2

\* The simple paths of the link graph from a to b: sequences of distinct
\* registered nodes, each linked to the next.
SimplePaths(a, b) ==
    LET ids == NodeKeys(nodes)
    IN  { p \in UNION {[1..k -> ids] : k \in 1..Cardinality(ids)} :
            /\ p[1] = a
            /\ p[Len(p)] = b
            /\ \A i, j \in 1..Len(p) : i # j => p[i] # p[j]
            /\ \A i \in 1..(Len(p) - 1) : p[i+1] \in node_graph[p[i]] }

\* The total latency of a path whose consecutive nodes are linked.
RECURSIVE PathLatency(_)
PathLatency(p) ==
    IF Len(p) <= 1 THEN 0
    ELSE network_latencies[<<p[1], p[2]>>] + PathLatency(Tail(p))

\* Every registered node is linked, directly or not, to every other.
Connected ==
    \A a, b \in NodeKeys(nodes) : SimplePaths(a, b) # {}

\* C9: on a connected link graph with no negative latency, the path returned
\* for two registered nodes starts at the source, ends at the target, follows
\* existing links only, and its total latency is the least over all paths
\* between the two.
C9_ShortestPathCorrect ==
    (/\ last.op = "find_best_path"
     /\ last.node \in NodeKeys(nodes)
     /\ last.peer \in NodeKeys(nodes)
     /\ Connected) =>
        LET path == last.ret
        IN  /\ Len(path) >= 1
            /\ path[1] = last.node
            /\ path[Len(path)] = last.peer
            /\ \A i \in 1..(Len(path) - 1) : path[i+1] \in node_graph[path[i]]
            /\ \A p \in SimplePaths(last.node, last.peer) :
                   PathLatency(path) <= PathLatency(p)

\* A two-link path returned although a direct, slower link joins the two
\* nodes of a connected graph of four.
C9_Witness ==
    /\ last.op = "find_best_path"
    /\ Len(nodes) = 4
    /\ Connected
    /\ Len(last.ret) = 3
    /\ last.peer \in node_graph[last.node]
    /\ PathLatency(last.ret) < network_latencies[<<last.node, last.peer>>]

\* C10: the path is empty when an endpoint is not registered and when no
\* chain of links joins the two registered endpoints.
C10_NoPathIsEmpty ==
    (/\ last.op = "find_best_path"
     /\ \/ last.node \notin NodeKeys(nodes)
        \/ last.peer \notin NodeKeys(nodes)
        \/ SimplePaths(last.node, last.peer) = {}) =>
        last.ret = <<>>

\* The agents created for a file, and the first of them.
AgentsOf(f) == {a \in DOMAIN agents : agents[a].file_id = f}
FirstAgentOf(f) == CHOOSE a \in AgentsOf(f) : \A b \in AgentsOf(f) : a[3] <= b[3]

\* C11: the first agent createGuardian made for a file is its primary
\* guardian, whatever its role, later createGuardian calls do not change
\* that, and it is the guardian id a monitor of the file returns.
C11_FirstGuardianIsPrimary ==
    /\ \A f \in GuardianFileIds :
           AgentsOf(f) # {} =>
               (f \in DOMAIN file_guardians /\ file_guardians[f] = FirstAgentOf(f))
    /\ (last.op = "monitor_file" /\ AgentsOf(last.file_id) # {}) =>
           /\ last.raised = None
           /\ last.ret # <<>>
           /\ last.ret.guardian_id = FirstAgentOf(last.file_id)

\* The registered nodes of a class that can accept work.
AvailableNodes(t) ==
    {n \in Range(nodes) : n.node_type = t /\ n.status = "online" /\ n.load < 90}

\* Node selection has no candidate for the context.
NoCandidate(context) ==
    \/ context = "quantum" /\ ~\E n \in Range(nodes) : n.node_type = "quantum"
    \/ context = "edge" /\ AvailableNodes("edge") = {}
    \/ context = "cloud" /\ AvailableNodes("cloud") = {}

\* C12: planExecution on a registered file returns no plan when node
\* selection finds no candidate for the context.
C12_NoCandidateNoPlan ==
    (/\ last.op = "plan_execution"
     /\ last.file_id \in DOMAIN files
     /\ NoCandidate(last.content)) =>
        last.ret = NoPlan

\* C13: an edge plan for a registered file, some edge node being available,
\* has for primary node an available edge node of least latency among the
\* available edge nodes.
C13_EdgePlanNearestAvailable ==
    (/\ last.op = "plan_execution"
     /\ last.content = "edge"
     /\ last.file_id \in DOMAIN files
     /\ AvailableNodes("edge") # {}) =>
        /\ last.ret # NoPlan
        /\ \E n \in AvailableNodes("edge") :
               /\ n.node_id = last.ret.primary_node
               /\ \A m \in AvailableNodes("edge") : n.latency_ms <= m.latency_ms

\* An edge plan whose primary node is the nearer of two available edge nodes,
\* registered after the farther one.
C13_Witness ==
    /\ last.op = "plan_execution"
    /\ last.content = "edge"
    /\ last.ret # NoPlan
    /\ Cardinality(AvailableNodes("edge")) = 2
    /\ \E i, j \in 1..Len(nodes) :
           /\ i < j
           /\ nodes[i] \in AvailableNodes("edge")
           /\ nodes[j] \in AvailableNodes("edge")
           /\ nodes[j].latency_ms < nodes[i].latency_ms
           /\ last.ret.primary_node = nodes[j].node_id

\* C14: a quantum plan for a registered file has for primary node the first
\* available quantum node in registry order, and never an unavailable one.
C14_QuantumPlanFirstAvailable ==
    (/\ last.op = "plan_execution"
     /\ last.content = "quantum"
     /\ last.ret # NoPlan) =>
        /\ \A n \in Range(nodes) :
               n.node_id = last.ret.primary_node => n \in AvailableNodes("quantum")
        /\ AvailableNodes("quantum") # {} =>
               \E i \in 1..Len(nodes) :
                   /\ nodes[i] \in AvailableNodes("quantum")
                   /\ \A j \in 1..(i-1) : nodes[j] \notin AvailableNodes("quantum")
                   /\ last.ret.primary_node = nodes[i].node_id

\* The available nodes other than n, in registry order.
AvailableOthers(n) ==
    SelectSeq(nodes, LAMBDA m : m.node_id # n /\ m.status = "online" /\ m.load < 90)

\* C15: a hybrid plan has the requesting node for primary node and, for
\* backups, the first two (or fewer, if there are fewer) available nodes other
\* than it, in registry order; a plan for any other context has no backups.
C15_HybridBackups ==
    (last.op = "plan_execution" /\ last.ret # NoPlan) =>
        LET plan == last.ret
            others == AvailableOthers(last.node)
            k == IF Len(others) < 2 THEN Len(others) ELSE 2
        IN  IF last.content = "hybrid"
            THEN /\ plan.primary_node = last.node
                 /\ Len(plan.backup_nodes) = k
                 /\ \A i \in 1..k : plan.backup_nodes[i] = others[i].node_id
                 /\ last.node \notin Range(plan.backup_nodes)
                 /\ Len(plan.backup_nodes) <= 2
            ELSE plan.backup_nodes = <<>>

\* A hybrid plan that keeps two of three available other nodes.
C15_Witness ==
    /\ last.op = "plan_execution"
    /\ last.content = "hybrid"
    /\ last.ret # NoPlan
    /\ Len(AvailableOthers(last.node)) = 3
    /\ Len(last.ret.backup_nodes) = 2

\* The agents of a file with a role.
AgentsWith(ag, f, role) == {a \in DOMAIN ag : ag[a].file_id = f /\ ag[a].role = role}

\* The first two (or fewer) of the available nodes other than n.
FirstTwoOthers(n) ==
    LET others == AvailableOthers(n)
    IN  {others[i].node_id : i \in 1..(IF Len(others) < 2 THEN Len(others) ELSE 2)}

\* C16: addFile on a path not yet added (its file id known to neither the
\* replication manager nor the guardian registry), the primary node being
\* registered, registers the file under the id derived from the path, with
\* replicas on the primary node and the first two available other nodes only,
\* all holding the content at version 1 with equal hashes, the file synced,
\* one guardian-role primary agent on the primary node and one monitor-role
\* agent per replication target, each listed once as secondary guardian.
C16_AddFilePostcondition ==
    [][(/\ last'.op = "add_file"
        /\ last'.file_id \notin DOMAIN files
        /\ last'.file_id \notin DOMAIN file_guardians
        /\ last'.node \in NodeKeys(nodes)) =>
        LET f == last'.file_id
            targets == FirstTwoOthers(last'.node)
        IN  /\ last'.raised = None
            /\ last'.ret = f
            /\ DOMAIN files' = DOMAIN files \cup {f}
            /\ LET after == files'[f]
                   guardians == AgentsWith(agents', f, "guardian")
                   monitors == AgentsWith(agents', f, "monitor")
               IN  /\ after.file_id = f
                   /\ after.path = last'.path
                   /\ ReplicaKeys(after) = {last'.node} \cup targets
                   /\ Len(after.replicas) = 1 + Cardinality(targets)
                   /\ \A r \in Range(after.replicas) :
                          /\ r.content = last'.content
                          /\ r.version = 1
                          /\ r.hash = after.replicas[1].hash
                   /\ after.sync_state = "synced"
                   /\ Cardinality(guardians) = 1
                   /\ file_guardians'[f] \in guardians
                   /\ agents'[file_guardians'[f]].node_id = last'.node
                   /\ {agents'[a].node_id : a \in monitors} = targets
                   /\ Cardinality(monitors) = Cardinality(targets)
                   /\ Range(after.secondary_guardians) = monitors
                   /\ Len(after.secondary_guardians) = Cardinality(monitors)]_vars

\* An addFile of a new path from edge_1 in a mesh of four nodes, one of them
\* unavailable and passed over: replicas on edge_1 and on two others.
C16_Witness ==
    /\ last.op = "add_file"
    /\ last.raised = None
    /\ last.node = "edge_1"
    /\ Len(nodes) = 4
    /\ Len(AvailableOthers("edge_1")) = 2
    /\ Len(files[last.file_id].replicas) = 3
    /\ Cardinality(DOMAIN agents) = 3
    /\ nodes[1].node_id \notin ReplicaKeys(files[last.file_id])

\* C17: a file addFile returned has its primary-guardian id field set, equal
\* to the primary guardian the guardian registry tracks for it.
C17_GuardianIdFieldSet ==
    \A f \in DOMAIN files :
        f \in DOMAIN file_guardians =>
            /\ files[f].guardian_id # None
            /\ files[f].guardian_id = file_guardians[f]

\* C18: addFile on a path already added returns the id the file has, adds no
\* file, and leaves the file's id, path, primary guardian and every existing
\* replica (content, hash, version) as they were, whatever content and
\* primary node it is passed.
C18_AddFileAgainKeepsFile ==
    [][(last'.op = "add_file" /\ last'.file_id \in DOMAIN files) =>
        LET f == last'.file_id
            before == files[f]
            after == files'[f]
        IN  /\ last'.raised = None
            /\ last'.ret = before.file_id
            /\ before.path = last'.path
            /\ DOMAIN files' = DOMAIN files
            /\ after.file_id = before.file_id
            /\ after.path = before.path
            /\ file_guardians'[f] = file_guardians[f]
            /\ Len(after.replicas) >= Len(before.replicas)
            /\ \A i \in 1..Len(before.replicas) :
                   /\ after.replicas[i].node_id = before.replicas[i].node_id
                   /\ after.replicas[i].content = before.replicas[i].content
                   /\ after.replicas[i].hash = before.replicas[i].hash
                   /\ after.replicas[i].version = before.replicas[i].version]_vars

\* A second addFile of the path, with another content and from a node that
\* is not registered, in a mesh that has grown since the first.
C18_Witness ==
    /\ last.op = "add_file"
    /\ last.raised = None
    /\ last.node = "ghost_1"
    /\ Len(files[last.file_id].replicas) = 3
    /\ last.content # files[last.file_id].replicas[1].content
    /\ files[last.file_id].replicas[3].content = files[last.file_id].replicas[1].content
    /\ Cardinality(AgentsWith(agents, last.file_id, "guardian")) = 2

\* C19: a registerFile, sync or resolveConflict that returns success has
\* applied its effect to the file registry, and one that left every file and
\* replica as it was reports failure (replicate, which may skip every target,
\* is exempt).
C19_SignalMatchesEffect ==
    [][(/\ last'.op \in {"register_file", "sync_file", "resolve_conflict"}
        /\ last'.raised = None) =>
        (last'.ret = TRUE <=> files' # files)]_vars


\* The file state the claim compares: each replica's holder, content, hash and
\* version, and the sync state.
FileState(metadata) ==
    [replicas |-> [i \in 1..Len(metadata.replicas) |->
                      [node_id |-> metadata.replicas[i].node_id,
                       content |-> metadata.replicas[i].content,
                       hash |-> metadata.replicas[i].hash,
                       version |-> metadata.replicas[i].version]],
     sync_state |-> metadata.sync_state]

NoStamps == [i \in 1..MaxNodes |-> 0]

\* The file after a thread's call run alone, from its first statement to its
\* return, on metadata.
RunAlone(metadata, call) ==
    IF call.op = "sync_file"
    THEN LET updated == [metadata EXCEPT !.replicas =
                            sync_loop(metadata.replicas, call.content, Hash(call.content),
                                      call.node, NoStamps)]
         IN  [updated EXCEPT !.sync_state = sync_state_after(updated)]
    ELSE IF call.node \in ReplicaKeys(metadata)
         THEN [metadata EXCEPT
                  !.replicas = resolve_loop(metadata.replicas,
                                            ReplicaAt(metadata, call.node), NoStamps),
                  !.sync_state = "synced"]
         ELSE metadata

AllReturned == \A t \in Threads : threads[t].pc = "done"

\* C20: once the concurrent sync_file and resolve_conflict calls on a file have
\* all returned, the file's state (replica contents, hashes, versions, sync
\* state) is the one some sequential order of the calls produces from the state
\* they started in, and the file is synced only if its replicas are consistent.
C20_ConcurrentCallsSerialized ==
    (AllReturned /\ last.op = "concurrent") =>
        \A f \in DOMAIN last.start :
            /\ \E a \in Threads, b \in Threads :
                   /\ a # b
                   /\ FileState(files[f]) =
                          FileState(RunAlone(RunAlone(last.start[f], threads[a]), threads[b]))
            /\ files[f].sync_state = "synced" => replicas_consistent(files[f])


\* A replica of f, not there when the calls began, holds content the file had
\* then and sync_file's call sy did not write, while every replica sy's loop
\* overwrote holds sy's new content.
StaleCopy(f, sy) ==
    LET before == last.start[f]
        now == files[f].replicas
        overwritten == {j \in 1..Len(now) :
                           /\ now[j].node_id \in ReplicaKeys(before)
                           /\ now[j].node_id # threads[sy].node}
    IN  /\ overwritten # {}
        /\ \A j \in overwritten : now[j].content = threads[sy].content
        /\ \E i \in 1..Len(now) :
               /\ now[i].node_id \notin ReplicaKeys(before)
               /\ now[i].content # threads[sy].content
               /\ \E j \in 1..Len(before.replicas) :
                      before.replicas[j].content = now[i].content

\* C21: once a replicate_file call and a sync_file call made concurrently on
\* one file have both returned True, the replica replicate_file created does
\* not hold the pre-sync content while the replicas sync_file overwrote hold the
\* new content.
C21_ReplicateNeverCopiesStale ==
    (AllReturned /\ last.op = "concurrent") =>
        \A f \in DOMAIN last.start, sy \in Threads, rp \in Threads :
            ( /\ threads[sy].op = "sync_file" /\ threads[sy].file_id = f
              /\ threads[sy].returned = "True"
              /\ threads[rp].op = "replicate_file" /\ threads[rp].file_id = f
              /\ threads[rp].returned = "True" )
            => ~StaleCopy(f, sy)


\* The call just made (last') was given, in the state it was made in, an id
\* that is already taken or an id that is unknown.
StructuralError ==
    \/ last'.op = "add_node" /\ last'.node \in NodeKeys(nodes)
    \/ /\ last'.op = "connect_nodes"
       /\ (last'.node \notin NodeKeys(nodes) \/ last'.peer \notin NodeKeys(nodes))
    \/ last'.op = "register_file" /\ last'.file_id \in DOMAIN files
    \/ last'.op \in {"replicate_file", "sync_file"} /\ last'.file_id \notin DOMAIN files
    \/ /\ last'.op = "resolve_conflict"
       /\ \/ last'.file_id \notin DOMAIN files
          \/ last'.node \notin ReplicaKeys(files[last'.file_id])

\* C22: add_node with an existing id, connect_nodes with an unknown endpoint,
\* register_file with an existing file id, replicate_file or sync_file with an
\* unknown file id, and resolve_conflict with an unknown file id or a winner
\* holding no replica each return False and leave nodes, links, files, replicas
\* and the sync event log as they were.
C22_StructuralErrorsChangeNothing ==
    [][StructuralError => (last'.ret = FALSE /\ UNCHANGED <<netVars, files, sync_events>>)]_vars

\* A resolve_conflict naming a winner without a replica was refused on a file
\* that has been synced, in a mesh with a link.
C22_Witness ==
    /\ last.op = "resolve_conflict"
    /\ last.ret = FALSE
    /\ last.file_id \in DOMAIN files
    /\ last.node \notin ReplicaKeys(files[last.file_id])
    /\ Len(sync_events) > 0
    /\ DOMAIN network_latencies # {}


\* C23: monitor_file returns without error in every state of the guardian
\* registry: {} when the file has no guardian, and otherwise a snapshot naming
\* the file's primary guardian and carrying the file's sync state, replica
\* count and consistency flag.
C23_MonitorAlwaysReturns ==
    last.op = "monitor_file" =>
        /\ last.raised = None
        /\ IF last.file_id \notin DOMAIN file_guardians
           THEN last.ret = <<>>
           ELSE /\ last.ret # <<>>
                /\ last.ret.guardian_id = file_guardians[last.file_id]
                /\ last.ret.sync_state = files[last.file_id].sync_state
                /\ last.ret.replica_count = Len(files[last.file_id].replicas)
                /\ last.ret.replicas_consistent = replicas_consistent(files[last.file_id])


\* The link graph is symmetric and every endpoint is a registered node.
LinksSymmetricAndClosed ==
    /\ DOMAIN node_graph = NodeKeys(nodes)
    /\ \A a \in DOMAIN node_graph :
           /\ node_graph[a] \subseteq NodeKeys(nodes)
           /\ \A b \in node_graph[a] : a \in node_graph[b]
    /\ DOMAIN bandwidth = DOMAIN network_latencies
    /\ \A ab \in DOMAIN network_latencies :
           /\ ab[1] \in NodeKeys(nodes) /\ ab[2] \in NodeKeys(nodes)
           /\ ab[2] \in node_graph[ab[1]]
           /\ <<ab[2], ab[1]>> \in DOMAIN network_latencies
           /\ network_latencies[<<ab[2], ab[1]>>] = network_latencies[ab]
           /\ bandwidth[<<ab[2], ab[1]>>] = bandwidth[ab]
    /\ \A a \in DOMAIN node_graph :
           \A b \in node_graph[a] : <<a, b>> \in DOMAIN network_latencies

\* A connect_nodes between registered nodes leaves the latency and bandwidth it
\* was given under both orders of the pair, whatever was there before.
ConnectReplaces ==
    \A ab \in RelinkPairs, l \in MeshLatencies, bw \in MeshBandwidths :
        ( /\ ConnectNodes(ab[1], ab[2], l, bw)
          /\ ab[1] \in NodeKeys(nodes) /\ ab[2] \in NodeKeys(nodes) )
        => /\ network_latencies'[ab] = l
           /\ network_latencies'[<<ab[2], ab[1]>>] = l
           /\ bandwidth'[ab] = bw
           /\ bandwidth'[<<ab[2], ab[1]>>] = bw

\* C24: in every state reached through add_node and connect_nodes the link
\* graph is symmetric (adjacency, latency and bandwidth alike in both
\* directions) and refers to registered nodes only, and a second connect_nodes
\* on a pair replaces the earlier latency and bandwidth in both directions.
C24_LinksSymmetricClosedReplaced ==
    /\ []LinksSymmetricAndClosed
    /\ [][ConnectReplaces]_vars

\* A link made before has been made again, from its other end, with another
\* latency and another bandwidth.
C24_Witness ==
    /\ last.op = "connect_nodes"
    /\ last.again
    /\ last.node = "edge_1" /\ last.peer = "local_1"
    /\ network_latencies[<<"local_1", "edge_1">>] = 3
    /\ bandwidth[<<"local_1", "edge_1">>] = 50


\* C25: a register_file, replicate_file, sync_file or resolve_conflict on one
\* file, and a plan_execution or monitor_file on any file, leave every other
\* file's record (replicas, versions, sync state, secondary guardians) as it
\* was; plan_execution and monitor_file leave the file they are called on as
\* it was too.
C25_FilesIndependent ==
    [][ /\ \A g \in DOMAIN files :
              g # last'.file_id => (g \in DOMAIN files' /\ files'[g] = files[g])
        /\ last'.op \in {"plan_execution", "monitor_file"} => files' = files ]_vars

\* A sync has just overwritten a replica of one file while the other file,
\* registered and replicated, holds its first content.
C25_Witness ==
    /\ last.op = "sync_file" /\ last.ret = TRUE /\ last.content = "x=2"
    /\ DOMAIN files = TwoFileIds
    /\ \E g \in TwoFileIds :
           /\ g # last.file_id
           /\ Len(files[g].replicas) = 2
           /\ \A i \in 1..2 : files[g].replicas[i].content = "x=1"
                                /\ files[g].replicas[i].version = 1
    /\ \E i \in 1..Len(files[last.file_id].replicas) :
           files[last.file_id].replicas[i].content = "x=2"


\* C26: each successful sync_file appends exactly one SyncEvent, naming the
\* source node, the replica holders other than the source as targets, the hash
\* of the new content as new hash and, as old hash, the hash the file's primary
\* replica had before the sync overwrote anything; no other call changes the
\* log.
C26_SyncEventRecordsSync ==
    [][IF last'.op = "sync_file" /\ last'.ret = TRUE
       THEN /\ Len(sync_events') = Len(sync_events) + 1
            /\ SubSeq(sync_events', 1, Len(sync_events)) = sync_events
            /\ LET event == sync_events'[Len(sync_events')]
                   before == files[last'.file_id]
               IN  /\ event.file_id = last'.file_id
                   /\ event.source_node = last'.node
                   /\ event.target_nodes = SyncTargets(before.replicas, last'.node)
                   /\ event.new_hash = Hash(last'.content)
                   /\ event.old_hash = get_primary_replica(before).hash
       ELSE sync_events' = sync_events]_vars


\* C27: within one file the version identifies the content: two replicas of a
\* file that have the same version have the same hash.
C27_VersionIdentifiesContent ==
    \A f \in DOMAIN files :
        \A i \in 1..Len(files[f].replicas), j \in 1..Len(files[f].replicas) :
            files[f].replicas[i].version = files[f].replicas[j].version
                => files[f].replicas[i].hash = files[f].replicas[j].hash


\* C28: after save_file(file_id, content, developer_node) has returned True,
\* the open_file that comes next, on that file's path, returns the saved
\* content, however many replicas the file has.
C28_OpenReturnsSaved ==
    [][ ( /\ last.op = "save_file" /\ last.ret = TRUE
          /\ last'.op = "open_file" /\ last'.file_id = last.file_id )
        => last'.ret = last.content ]_vars


\* C29: after any sequence of add_file calls every file has one primary
\* guardian and at most one agent per node: as many agents as replicas, each
\* secondary guardian on a node of its own that holds a replica, and the
\* primary guardian not among the secondary guardians.
C29_OneAgentPerReplica ==
    \A f \in DOMAIN files :
        LET secondary == files[f].secondary_guardians
        IN  /\ f \in DOMAIN file_guardians
            /\ Cardinality(AgentsOf(f)) = Len(files[f].replicas)
            /\ \A a \in AgentsOf(f), b \in AgentsOf(f) :
                   agents[a].node_id = agents[b].node_id => a = b
            /\ \A i \in 1..Len(secondary) :
                   /\ agents[secondary[i]].node_id \in ReplicaKeys(files[f])
                   /\ \A j \in 1..Len(secondary) :
                          agents[secondary[i]].node_id = agents[secondary[j]].node_id
                              => i = j
            /\ file_guardians[f] \notin Range(secondary)


\* C30: no call puts a file in sync state conflict or diverged: through
\* register_file, replicate_file, sync_file, resolve_conflict and add_file the
\* sync state is synced or pending, also when replicas hold different contents.
C30_SyncStateSyncedOrPending ==
    \A f \in DOMAIN files : files[f].sync_state \in {"synced", "pending"}

\* A file added through the coordinator whose replicas have come to hold
\* different contents.
C30_Witness ==
    \E f \in DOMAIN files :
        /\ f \in DOMAIN file_guardians
        /\ files[f].sync_state = "pending"
        /\ \E i \in 1..Len(files[f].replicas), j \in 1..Len(files[f].replicas) :
               files[f].replicas[i].content # files[f].replicas[j].content

====
